---- MODULE Spec2Model ----
(***************************************************************************)
(* A model of src/scrum.py: the JiraScrum tool server.  The process        *)
(* start-up (JiraScrum.__init__, _init_jira, _register_tools, run) is a    *)
(* small state machine; once the server runs, each of the nine tool        *)
(* handlers is modelled step by step, one step per backend call, and a     *)
(* backend call either returns a response or raises a fault that the       *)
(* handler's `except Exception` block turns into the returned record.      *)
(*                                                                         *)
(* Python values whose type varies at run time (None, str, number, list)   *)
(* are tagged records, so that truthiness tests and getattr defaults are   *)
(* computed as Python computes them.  Percentages are exact rationals in   *)
(* lowest terms (Python computes them in binary floating point).           *)
(***************************************************************************)
EXTENDS Integers, Sequences, FiniteSets, TLC

VARIABLES
    pc,          \* position of the process: start-up, running or exited
    env,         \* os.environ: JIRA_URL, JIRA_USERNAME, JIRA_API_TOKEN
    session,     \* self.jira: "none" until JIRA(...) has returned
    tools,       \* the tool handlers registered with self.mcp
    run_entered, \* whether self.mcp.run was entered
    exit_code,   \* -1 while the process lives, else its exit status
    handler,     \* the tool handler being executed, "none" when idle
    args,        \* its arguments
    step,        \* its position: the backend call it is about to make, or "done"
    loc,         \* its local variables
    calls,       \* the backend calls it has issued so far, in order
    fault,       \* the exception raised inside its try block, NoFault if none
    result,      \* the record it returned, NoResult while it runs
    status       \* the backend: status name of issue IssueKey

vars == <<pc, env, session, tools, run_entered, exit_code,
          handler, args, step, loc, calls, fault, result, status>>

startup_vars == <<pc, env, session, tools, run_entered, exit_code>>
call_vars == <<handler, args, step, loc, calls, fault, result, status>>

-----------------------------------------------------------------------------
(* Python values *)

None == [none |-> TRUE]
Str(s) == [str |-> s]
Num(n) == [num |-> n]
List(l) == [list |-> l]

\* bool(v): None, "", 0 and [] are false, every other value is true.
Truthy(v) ==
    CASE "none" \in DOMAIN v -> FALSE
      [] "str" \in DOMAIN v -> v.str # ""
      [] "num" \in DOMAIN v -> v.num # 0
      [] "list" \in DOMAIN v -> v.list # <<>>
      [] OTHER -> TRUE

\* getattr(obj, name, default): obj's attribute when it has one of that name.
Getattr(obj, name, default) ==
    IF name \in DOMAIN obj THEN obj[name] ELSE default

\* (v or 0) for a story-point value v.
OrZero(v) == IF Truthy(v) THEN v.num ELSE 0

Abs(n) == IF n < 0 THEN -n ELSE n

RECURSIVE GCD(_, _)
GCD(a, b) == IF b = 0 THEN a ELSE GCD(b, a % b)

\* The rational n/d (d > 0) in lowest terms.
Frac(n, d) ==
    LET g == GCD(Abs(n), d)
    IN  [num |-> n \div g, den |-> d \div g]

\* A percentage that is left as a fraction of one.
PercentageOfOne(part, whole) ==
    IF whole > 0 THEN Frac(part, whole) ELSE Frac(0, 1)

\* (part / whole * 100) if whole > 0 else 0
Percentage(part, whole) ==
    IF whole > 0 THEN Frac(part * 100, whole) ELSE Frac(0, 1)

RECURSIVE Join(_, _)
\* sep.join(strs), the strings given by their code points
Join(sep, strs) ==
    IF strs = <<>> THEN <<>>
    ELSE IF Len(strs) = 1 THEN strs[1]
    ELSE strs[1] \o sep \o Join(sep, Tail(strs))

-----------------------------------------------------------------------------
(* Start-up: JiraScrum.__init__, _init_jira, _register_tools, run *)

ToolNames ==
    {"get_sprint_details", "get_issue_details", "create_issue",
     "update_issue_status", "assign_issue", "add_issue_to_sprint",
     "get_project_backlog", "create_sprint", "generate_sprint_report"}

\* os.getenv of a setting: None when unset, else its text (possibly empty).
EnvValues == {None, Str(""), Str("set")}

NoFault == [raised |-> FALSE]
NoResult == [pending |-> TRUE]
NoLocals == [empty |-> TRUE]
NoArgs == [empty |-> TRUE]

IssueKey == "PROJ-1"

Init ==
    /\ pc = "start"
    /\ env \in [JIRA_URL : EnvValues, JIRA_USERNAME : EnvValues, JIRA_API_TOKEN : EnvValues]
    /\ session = "none"
    /\ tools = {}
    /\ run_entered = FALSE
    /\ exit_code = -1
    /\ handler = "none"
    /\ args = NoArgs
    /\ step = "idle"
    /\ loc = NoLocals
    /\ calls = <<>>
    /\ fault = NoFault
    /\ result = NoResult
    /\ status = "To Do"

\* A credentials check that fails only when every setting is missing.
MissingAllCredentials(e) ==
    /\ ~Truthy(e.JIRA_URL)
    /\ ~Truthy(e.JIRA_USERNAME)
    /\ ~Truthy(e.JIRA_API_TOKEN)

\* not self.jira_url or not self.jira_username or not self.jira_api_token
MissingCredentials(e) ==
    \/ ~Truthy(e.JIRA_URL)
    \/ ~Truthy(e.JIRA_USERNAME)
    \/ ~Truthy(e.JIRA_API_TOKEN)

\* What a .env file can define for the three settings: None for a setting
\* it does not define (all None when there is no file), else the text.
DotenvFiles == [JIRA_URL : EnvValues, JIRA_USERNAME : EnvValues, JIRA_API_TOKEN : EnvValues]

\* load_dotenv(): every setting the file defines and the environment does
\* not is added to the environment; a setting already there is kept, even
\* when it is empty.
LoadDotenv(e, file) ==
    [k \in DOMAIN e |-> IF e[k] = None THEN file[k] ELSE e[k]]

\* __init__ up to the call of _init_jira: load_dotenv(), FastMCP("scrum").
Construct ==
    /\ pc = "start"
    /\ pc' = "init_jira"
    /\ \E file \in DotenvFiles : env' = LoadDotenv(env, file)
    /\ UNCHANGED <<session, tools, run_entered, exit_code>>
    /\ UNCHANGED call_vars

\* _init_jira: the credentials check, the JIRA(...) constructor, and the
\* except block's sys.exit(1) (SystemExit leaves __init__ at once).
InitJira ==
    /\ pc = "init_jira"
    /\ \/ /\ MissingCredentials(env)
          /\ pc' = "exited"
          /\ exit_code' = 1
          /\ UNCHANGED session
       \/ /\ ~MissingCredentials(env)
          /\ pc' = "exited"
          /\ exit_code' = 1
          /\ UNCHANGED session
       \/ /\ ~MissingCredentials(env)
          /\ pc' = "register"
          /\ session' = "connected"
          /\ UNCHANGED exit_code
    /\ UNCHANGED <<env, tools, run_entered>>
    /\ UNCHANGED call_vars

\* _register_tools: the nine @self.mcp.tool() decorators.
RegisterTools ==
    /\ pc = "register"
    /\ tools' = ToolNames
    /\ pc' = "run"
    /\ UNCHANGED <<env, session, run_entered, exit_code>>
    /\ UNCHANGED call_vars

\* run: self.mcp.run(transport="stdio") is entered.
Run ==
    /\ pc = "run"
    /\ pc' = "running"
    /\ run_entered' = TRUE
    /\ UNCHANGED <<env, session, tools, exit_code>>
    /\ UNCHANGED call_vars

\* run: self.mcp.run returned (stdio was closed), run returns and the
\* process ends with status 0.
RunReturned ==
    /\ pc = "running"
    /\ handler = "none"
    /\ pc' = "exited"
    /\ exit_code' = 0
    /\ UNCHANGED <<env, session, tools, run_entered>>
    /\ UNCHANGED call_vars

\* run's except block: the run loop raised, sys.exit(1).
RunFailed ==
    /\ pc = "running"
    /\ handler = "none"
    /\ pc' = "exited"
    /\ exit_code' = 1
    /\ UNCHANGED <<env, session, tools, run_entered>>
    /\ UNCHANGED call_vars

-----------------------------------------------------------------------------
(* Text: a str that is matched without regard to case, or built from one  *)
(* that is, is the sequence of its code points (0 .. 1114111), so that    *)
(* str.lower() is computed character by character for every character.    *)

\* The code points that str.lower() changes to one other code point
\* (Unicode 14.0.0, the tables of the interpreter), in increasing order:
\* 65 is "A", 201 is "É", 931 is the capital sigma.
UpperLetters ==
    <<65, 66, 67, 68, 69, 70, 71, 72, 73, 74, 75, 76, 77, 78, 79, 80, 81, 82,
      83, 84, 85, 86, 87, 88, 89, 90, 192, 193, 194, 195, 196, 197, 198, 199,
      200, 201, 202, 203, 204, 205, 206, 207, 208, 209, 210, 211, 212, 213,
      214, 216, 217, 218, 219, 220, 221, 222, 256, 258, 260, 262, 264, 266,
      268, 270, 272, 274, 276, 278, 280, 282, 284, 286, 288, 290, 292, 294,
      296, 298, 300, 302, 306, 308, 310, 313, 315, 317, 319, 321, 323, 325,
      327, 330, 332, 334, 336, 338, 340, 342, 344, 346, 348, 350, 352, 354,
      356, 358, 360, 362, 364, 366, 368, 370, 372, 374, 376, 377, 379, 381,
      385, 386, 388, 390, 391, 393, 394, 395, 398, 399, 400, 401, 403, 404,
      406, 407, 408, 412, 413, 415, 416, 418, 420, 422, 423, 425, 428, 430,
      431, 433, 434, 435, 437, 439, 440, 444, 452, 453, 455, 456, 458, 459,
      461, 463, 465, 467, 469, 471, 473, 475, 478, 480, 482, 484, 486, 488,
      490, 492, 494, 497, 498, 500, 502, 503, 504, 506, 508, 510, 512, 514,
      516, 518, 520, 522, 524, 526, 528, 530, 532, 534, 536, 538, 540, 542,
      544, 546, 548, 550, 552, 554, 556, 558, 560, 562, 570, 571, 573, 574,
      577, 579, 580, 581, 582, 584, 586, 588, 590, 880, 882, 886, 895, 902,
      904, 905, 906, 908, 910, 911, 913, 914, 915, 916, 917, 918, 919, 920,
      921, 922, 923, 924, 925, 926, 927, 928, 929, 931, 932, 933, 934, 935,
      936, 937, 938, 939, 975, 984, 986, 988, 990, 992, 994, 996, 998, 1000,
      1002, 1004, 1006, 1012, 1015, 1017, 1018, 1021, 1022, 1023, 1024, 1025,
      1026, 1027, 1028, 1029, 1030, 1031, 1032, 1033, 1034, 1035, 1036, 1037,
      1038, 1039, 1040, 1041, 1042, 1043, 1044, 1045, 1046, 1047, 1048, 1049,
      1050, 1051, 1052, 1053, 1054, 1055, 1056, 1057, 1058, 1059, 1060, 1061,
      1062, 1063, 1064, 1065, 1066, 1067, 1068, 1069, 1070, 1071, 1120, 1122,
      1124, 1126, 1128, 1130, 1132, 1134, 1136, 1138, 1140, 1142, 1144, 1146,
      1148, 1150, 1152, 1162, 1164, 1166, 1168, 1170, 1172, 1174, 1176, 1178,
      1180, 1182, 1184, 1186, 1188, 1190, 1192, 1194, 1196, 1198, 1200, 1202,
      1204, 1206, 1208, 1210, 1212, 1214, 1216, 1217, 1219, 1221, 1223, 1225,
      1227, 1229, 1232, 1234, 1236, 1238, 1240, 1242, 1244, 1246, 1248, 1250,
      1252, 1254, 1256, 1258, 1260, 1262, 1264, 1266, 1268, 1270, 1272, 1274,
      1276, 1278, 1280, 1282, 1284, 1286, 1288, 1290, 1292, 1294, 1296, 1298,
      1300, 1302, 1304, 1306, 1308, 1310, 1312, 1314, 1316, 1318, 1320, 1322,
      1324, 1326, 1329, 1330, 1331, 1332, 1333, 1334, 1335, 1336, 1337, 1338,
      1339, 1340, 1341, 1342, 1343, 1344, 1345, 1346, 1347, 1348, 1349, 1350,
      1351, 1352, 1353, 1354, 1355, 1356, 1357, 1358, 1359, 1360, 1361, 1362,
      1363, 1364, 1365, 1366, 4256, 4257, 4258, 4259, 4260, 4261, 4262, 4263,
      4264, 4265, 4266, 4267, 4268, 4269, 4270, 4271, 4272, 4273, 4274, 4275,
      4276, 4277, 4278, 4279, 4280, 4281, 4282, 4283, 4284, 4285, 4286, 4287,
      4288, 4289, 4290, 4291, 4292, 4293, 4295, 4301, 5024, 5025, 5026, 5027,
      5028, 5029, 5030, 5031, 5032, 5033, 5034, 5035, 5036, 5037, 5038, 5039,
      5040, 5041, 5042, 5043, 5044, 5045, 5046, 5047, 5048, 5049, 5050, 5051,
      5052, 5053, 5054, 5055, 5056, 5057, 5058, 5059, 5060, 5061, 5062, 5063,
      5064, 5065, 5066, 5067, 5068, 5069, 5070, 5071, 5072, 5073, 5074, 5075,
      5076, 5077, 5078, 5079, 5080, 5081, 5082, 5083, 5084, 5085, 5086, 5087,
      5088, 5089, 5090, 5091, 5092, 5093, 5094, 5095, 5096, 5097, 5098, 5099,
      5100, 5101, 5102, 5103, 5104, 5105, 5106, 5107, 5108, 5109, 7312, 7313,
      7314, 7315, 7316, 7317, 7318, 7319, 7320, 7321, 7322, 7323, 7324, 7325,
      7326, 7327, 7328, 7329, 7330, 7331, 7332, 7333, 7334, 7335, 7336, 7337,
      7338, 7339, 7340, 7341, 7342, 7343, 7344, 7345, 7346, 7347, 7348, 7349,
      7350, 7351, 7352, 7353, 7354, 7357, 7358, 7359, 7680, 7682, 7684, 7686,
      7688, 7690, 7692, 7694, 7696, 7698, 7700, 7702, 7704, 7706, 7708, 7710,
      7712, 7714, 7716, 7718, 7720, 7722, 7724, 7726, 7728, 7730, 7732, 7734,
      7736, 7738, 7740, 7742, 7744, 7746, 7748, 7750, 7752, 7754, 7756, 7758,
      7760, 7762, 7764, 7766, 7768, 7770, 7772, 7774, 7776, 7778, 7780, 7782,
      7784, 7786, 7788, 7790, 7792, 7794, 7796, 7798, 7800, 7802, 7804, 7806,
      7808, 7810, 7812, 7814, 7816, 7818, 7820, 7822, 7824, 7826, 7828, 7838,
      7840, 7842, 7844, 7846, 7848, 7850, 7852, 7854, 7856, 7858, 7860, 7862,
      7864, 7866, 7868, 7870, 7872, 7874, 7876, 7878, 7880, 7882, 7884, 7886,
      7888, 7890, 7892, 7894, 7896, 7898, 7900, 7902, 7904, 7906, 7908, 7910,
      7912, 7914, 7916, 7918, 7920, 7922, 7924, 7926, 7928, 7930, 7932, 7934,
      7944, 7945, 7946, 7947, 7948, 7949, 7950, 7951, 7960, 7961, 7962, 7963,
      7964, 7965, 7976, 7977, 7978, 7979, 7980, 7981, 7982, 7983, 7992, 7993,
      7994, 7995, 7996, 7997, 7998, 7999, 8008, 8009, 8010, 8011, 8012, 8013,
      8025, 8027, 8029, 8031, 8040, 8041, 8042, 8043, 8044, 8045, 8046, 8047,
      8072, 8073, 8074, 8075, 8076, 8077, 8078, 8079, 8088, 8089, 8090, 8091,
      8092, 8093, 8094, 8095, 8104, 8105, 8106, 8107, 8108, 8109, 8110, 8111,
      8120, 8121, 8122, 8123, 8124, 8136, 8137, 8138, 8139, 8140, 8152, 8153,
      8154, 8155, 8168, 8169, 8170, 8171, 8172, 8184, 8185, 8186, 8187, 8188,
      8486, 8490, 8491, 8498, 8544, 8545, 8546, 8547, 8548, 8549, 8550, 8551,
      8552, 8553, 8554, 8555, 8556, 8557, 8558, 8559, 8579, 9398, 9399, 9400,
      9401, 9402, 9403, 9404, 9405, 9406, 9407, 9408, 9409, 9410, 9411, 9412,
      9413, 9414, 9415, 9416, 9417, 9418, 9419, 9420, 9421, 9422, 9423, 11264,
      11265, 11266, 11267, 11268, 11269, 11270, 11271, 11272, 11273, 11274,
      11275, 11276, 11277, 11278, 11279, 11280, 11281, 11282, 11283, 11284,
      11285, 11286, 11287, 11288, 11289, 11290, 11291, 11292, 11293, 11294,
      11295, 11296, 11297, 11298, 11299, 11300, 11301, 11302, 11303, 11304,
      11305, 11306, 11307, 11308, 11309, 11310, 11311, 11360, 11362, 11363,
      11364, 11367, 11369, 11371, 11373, 11374, 11375, 11376, 11378, 11381,
      11390, 11391, 11392, 11394, 11396, 11398, 11400, 11402, 11404, 11406,
      11408, 11410, 11412, 11414, 11416, 11418, 11420, 11422, 11424, 11426,
      11428, 11430, 11432, 11434, 11436, 11438, 11440, 11442, 11444, 11446,
      11448, 11450, 11452, 11454, 11456, 11458, 11460, 11462, 11464, 11466,
      11468, 11470, 11472, 11474, 11476, 11478, 11480, 11482, 11484, 11486,
      11488, 11490, 11499, 11501, 11506, 42560, 42562, 42564, 42566, 42568,
      42570, 42572, 42574, 42576, 42578, 42580, 42582, 42584, 42586, 42588,
      42590, 42592, 42594, 42596, 42598, 42600, 42602, 42604, 42624, 42626,
      42628, 42630, 42632, 42634, 42636, 42638, 42640, 42642, 42644, 42646,
      42648, 42650, 42786, 42788, 42790, 42792, 42794, 42796, 42798, 42802,
      42804, 42806, 42808, 42810, 42812, 42814, 42816, 42818, 42820, 42822,
      42824, 42826, 42828, 42830, 42832, 42834, 42836, 42838, 42840, 42842,
      42844, 42846, 42848, 42850, 42852, 42854, 42856, 42858, 42860, 42862,
      42873, 42875, 42877, 42878, 42880, 42882, 42884, 42886, 42891, 42893,
      42896, 42898, 42902, 42904, 42906, 42908, 42910, 42912, 42914, 42916,
      42918, 42920, 42922, 42923, 42924, 42925, 42926, 42928, 42929, 42930,
      42931, 42932, 42934, 42936, 42938, 42940, 42942, 42944, 42946, 42948,
      42949, 42950, 42951, 42953, 42960, 42966, 42968, 42997, 65313, 65314,
      65315, 65316, 65317, 65318, 65319, 65320, 65321, 65322, 65323, 65324,
      65325, 65326, 65327, 65328, 65329, 65330, 65331, 65332, 65333, 65334,
      65335, 65336, 65337, 65338, 66560, 66561, 66562, 66563, 66564, 66565,
      66566, 66567, 66568, 66569, 66570, 66571, 66572, 66573, 66574, 66575,
      66576, 66577, 66578, 66579, 66580, 66581, 66582, 66583, 66584, 66585,
      66586, 66587, 66588, 66589, 66590, 66591, 66592, 66593, 66594, 66595,
      66596, 66597, 66598, 66599, 66736, 66737, 66738, 66739, 66740, 66741,
      66742, 66743, 66744, 66745, 66746, 66747, 66748, 66749, 66750, 66751,
      66752, 66753, 66754, 66755, 66756, 66757, 66758, 66759, 66760, 66761,
      66762, 66763, 66764, 66765, 66766, 66767, 66768, 66769, 66770, 66771,
      66928, 66929, 66930, 66931, 66932, 66933, 66934, 66935, 66936, 66937,
      66938, 66940, 66941, 66942, 66943, 66944, 66945, 66946, 66947, 66948,
      66949, 66950, 66951, 66952, 66953, 66954, 66956, 66957, 66958, 66959,
      66960, 66961, 66962, 66964, 66965, 68736, 68737, 68738, 68739, 68740,
      68741, 68742, 68743, 68744, 68745, 68746, 68747, 68748, 68749, 68750,
      68751, 68752, 68753, 68754, 68755, 68756, 68757, 68758, 68759, 68760,
      68761, 68762, 68763, 68764, 68765, 68766, 68767, 68768, 68769, 68770,
      68771, 68772, 68773, 68774, 68775, 68776, 68777, 68778, 68779, 68780,
      68781, 68782, 68783, 68784, 68785, 68786, 71840, 71841, 71842, 71843,
      71844, 71845, 71846, 71847, 71848, 71849, 71850, 71851, 71852, 71853,
      71854, 71855, 71856, 71857, 71858, 71859, 71860, 71861, 71862, 71863,
      71864, 71865, 71866, 71867, 71868, 71869, 71870, 71871, 93760, 93761,
      93762, 93763, 93764, 93765, 93766, 93767, 93768, 93769, 93770, 93771,
      93772, 93773, 93774, 93775, 93776, 93777, 93778, 93779, 93780, 93781,
      93782, 93783, 93784, 93785, 93786, 93787, 93788, 93789, 93790, 93791,
      125184, 125185, 125186, 125187, 125188, 125189, 125190, 125191, 125192,
      125193, 125194, 125195, 125196, 125197, 125198, 125199, 125200, 125201,
      125202, 125203, 125204, 125205, 125206, 125207, 125208, 125209, 125210,
      125211, 125212, 125213, 125214, 125215, 125216, 125217>>

\* What lower() changes each of them to, in the same order: 97 is "a",
\* 233 is "é", 963 is the small sigma.
LowerLetters ==
    <<97, 98, 99, 100, 101, 102, 103, 104, 105, 106, 107, 108, 109, 110, 111,
      112, 113, 114, 115, 116, 117, 118, 119, 120, 121, 122, 224, 225, 226,
      227, 228, 229, 230, 231, 232, 233, 234, 235, 236, 237, 238, 239, 240,
      241, 242, 243, 244, 245, 246, 248, 249, 250, 251, 252, 253, 254, 257,
      259, 261, 263, 265, 267, 269, 271, 273, 275, 277, 279, 281, 283, 285,
      287, 289, 291, 293, 295, 297, 299, 301, 303, 307, 309, 311, 314, 316,
      318, 320, 322, 324, 326, 328, 331, 333, 335, 337, 339, 341, 343, 345,
      347, 349, 351, 353, 355, 357, 359, 361, 363, 365, 367, 369, 371, 373,
      375, 255, 378, 380, 382, 595, 387, 389, 596, 392, 598, 599, 396, 477,
      601, 603, 402, 608, 611, 617, 616, 409, 623, 626, 629, 417, 419, 421,
      640, 424, 643, 429, 648, 432, 650, 651, 436, 438, 658, 441, 445, 454,
      454, 457, 457, 460, 460, 462, 464, 466, 468, 470, 472, 474, 476, 479,
      481, 483, 485, 487, 489, 491, 493, 495, 499, 499, 501, 405, 447, 505,
      507, 509, 511, 513, 515, 517, 519, 521, 523, 525, 527, 529, 531, 533,
      535, 537, 539, 541, 543, 414, 547, 549, 551, 553, 555, 557, 559, 561,
      563, 11365, 572, 410, 11366, 578, 384, 649, 652, 583, 585, 587, 589,
      591, 881, 883, 887, 1011, 940, 941, 942, 943, 972, 973, 974, 945, 946,
      947, 948, 949, 950, 951, 952, 953, 954, 955, 956, 957, 958, 959, 960,
      961, 963, 964, 965, 966, 967, 968, 969, 970, 971, 983, 985, 987, 989,
      991, 993, 995, 997, 999, 1001, 1003, 1005, 1007, 952, 1016, 1010, 1019,
      891, 892, 893, 1104, 1105, 1106, 1107, 1108, 1109, 1110, 1111, 1112,
      1113, 1114, 1115, 1116, 1117, 1118, 1119, 1072, 1073, 1074, 1075, 1076,
      1077, 1078, 1079, 1080, 1081, 1082, 1083, 1084, 1085, 1086, 1087, 1088,
      1089, 1090, 1091, 1092, 1093, 1094, 1095, 1096, 1097, 1098, 1099, 1100,
      1101, 1102, 1103, 1121, 1123, 1125, 1127, 1129, 1131, 1133, 1135, 1137,
      1139, 1141, 1143, 1145, 1147, 1149, 1151, 1153, 1163, 1165, 1167, 1169,
      1171, 1173, 1175, 1177, 1179, 1181, 1183, 1185, 1187, 1189, 1191, 1193,
      1195, 1197, 1199, 1201, 1203, 1205, 1207, 1209, 1211, 1213, 1215, 1231,
      1218, 1220, 1222, 1224, 1226, 1228, 1230, 1233, 1235, 1237, 1239, 1241,
      1243, 1245, 1247, 1249, 1251, 1253, 1255, 1257, 1259, 1261, 1263, 1265,
      1267, 1269, 1271, 1273, 1275, 1277, 1279, 1281, 1283, 1285, 1287, 1289,
      1291, 1293, 1295, 1297, 1299, 1301, 1303, 1305, 1307, 1309, 1311, 1313,
      1315, 1317, 1319, 1321, 1323, 1325, 1327, 1377, 1378, 1379, 1380, 1381,
      1382, 1383, 1384, 1385, 1386, 1387, 1388, 1389, 1390, 1391, 1392, 1393,
      1394, 1395, 1396, 1397, 1398, 1399, 1400, 1401, 1402, 1403, 1404, 1405,
      1406, 1407, 1408, 1409, 1410, 1411, 1412, 1413, 1414, 11520, 11521,
      11522, 11523, 11524, 11525, 11526, 11527, 11528, 11529, 11530, 11531,
      11532, 11533, 11534, 11535, 11536, 11537, 11538, 11539, 11540, 11541,
      11542, 11543, 11544, 11545, 11546, 11547, 11548, 11549, 11550, 11551,
      11552, 11553, 11554, 11555, 11556, 11557, 11559, 11565, 43888, 43889,
      43890, 43891, 43892, 43893, 43894, 43895, 43896, 43897, 43898, 43899,
      43900, 43901, 43902, 43903, 43904, 43905, 43906, 43907, 43908, 43909,
      43910, 43911, 43912, 43913, 43914, 43915, 43916, 43917, 43918, 43919,
      43920, 43921, 43922, 43923, 43924, 43925, 43926, 43927, 43928, 43929,
      43930, 43931, 43932, 43933, 43934, 43935, 43936, 43937, 43938, 43939,
      43940, 43941, 43942, 43943, 43944, 43945, 43946, 43947, 43948, 43949,
      43950, 43951, 43952, 43953, 43954, 43955, 43956, 43957, 43958, 43959,
      43960, 43961, 43962, 43963, 43964, 43965, 43966, 43967, 5112, 5113,
      5114, 5115, 5116, 5117, 4304, 4305, 4306, 4307, 4308, 4309, 4310, 4311,
      4312, 4313, 4314, 4315, 4316, 4317, 4318, 4319, 4320, 4321, 4322, 4323,
      4324, 4325, 4326, 4327, 4328, 4329, 4330, 4331, 4332, 4333, 4334, 4335,
      4336, 4337, 4338, 4339, 4340, 4341, 4342, 4343, 4344, 4345, 4346, 4349,
      4350, 4351, 7681, 7683, 7685, 7687, 7689, 7691, 7693, 7695, 7697, 7699,
      7701, 7703, 7705, 7707, 7709, 7711, 7713, 7715, 7717, 7719, 7721, 7723,
      7725, 7727, 7729, 7731, 7733, 7735, 7737, 7739, 7741, 7743, 7745, 7747,
      7749, 7751, 7753, 7755, 7757, 7759, 7761, 7763, 7765, 7767, 7769, 7771,
      7773, 7775, 7777, 7779, 7781, 7783, 7785, 7787, 7789, 7791, 7793, 7795,
      7797, 7799, 7801, 7803, 7805, 7807, 7809, 7811, 7813, 7815, 7817, 7819,
      7821, 7823, 7825, 7827, 7829, 223, 7841, 7843, 7845, 7847, 7849, 7851,
      7853, 7855, 7857, 7859, 7861, 7863, 7865, 7867, 7869, 7871, 7873, 7875,
      7877, 7879, 7881, 7883, 7885, 7887, 7889, 7891, 7893, 7895, 7897, 7899,
      7901, 7903, 7905, 7907, 7909, 7911, 7913, 7915, 7917, 7919, 7921, 7923,
      7925, 7927, 7929, 7931, 7933, 7935, 7936, 7937, 7938, 7939, 7940, 7941,
      7942, 7943, 7952, 7953, 7954, 7955, 7956, 7957, 7968, 7969, 7970, 7971,
      7972, 7973, 7974, 7975, 7984, 7985, 7986, 7987, 7988, 7989, 7990, 7991,
      8000, 8001, 8002, 8003, 8004, 8005, 8017, 8019, 8021, 8023, 8032, 8033,
      8034, 8035, 8036, 8037, 8038, 8039, 8064, 8065, 8066, 8067, 8068, 8069,
      8070, 8071, 8080, 8081, 8082, 8083, 8084, 8085, 8086, 8087, 8096, 8097,
      8098, 8099, 8100, 8101, 8102, 8103, 8112, 8113, 8048, 8049, 8115, 8050,
      8051, 8052, 8053, 8131, 8144, 8145, 8054, 8055, 8160, 8161, 8058, 8059,
      8165, 8056, 8057, 8060, 8061, 8179, 969, 107, 229, 8526, 8560, 8561,
      8562, 8563, 8564, 8565, 8566, 8567, 8568, 8569, 8570, 8571, 8572, 8573,
      8574, 8575, 8580, 9424, 9425, 9426, 9427, 9428, 9429, 9430, 9431, 9432,
      9433, 9434, 9435, 9436, 9437, 9438, 9439, 9440, 9441, 9442, 9443, 9444,
      9445, 9446, 9447, 9448, 9449, 11312, 11313, 11314, 11315, 11316, 11317,
      11318, 11319, 11320, 11321, 11322, 11323, 11324, 11325, 11326, 11327,
      11328, 11329, 11330, 11331, 11332, 11333, 11334, 11335, 11336, 11337,
      11338, 11339, 11340, 11341, 11342, 11343, 11344, 11345, 11346, 11347,
      11348, 11349, 11350, 11351, 11352, 11353, 11354, 11355, 11356, 11357,
      11358, 11359, 11361, 619, 7549, 637, 11368, 11370, 11372, 593, 625, 592,
      594, 11379, 11382, 575, 576, 11393, 11395, 11397, 11399, 11401, 11403,
      11405, 11407, 11409, 11411, 11413, 11415, 11417, 11419, 11421, 11423,
      11425, 11427, 11429, 11431, 11433, 11435, 11437, 11439, 11441, 11443,
      11445, 11447, 11449, 11451, 11453, 11455, 11457, 11459, 11461, 11463,
      11465, 11467, 11469, 11471, 11473, 11475, 11477, 11479, 11481, 11483,
      11485, 11487, 11489, 11491, 11500, 11502, 11507, 42561, 42563, 42565,
      42567, 42569, 42571, 42573, 42575, 42577, 42579, 42581, 42583, 42585,
      42587, 42589, 42591, 42593, 42595, 42597, 42599, 42601, 42603, 42605,
      42625, 42627, 42629, 42631, 42633, 42635, 42637, 42639, 42641, 42643,
      42645, 42647, 42649, 42651, 42787, 42789, 42791, 42793, 42795, 42797,
      42799, 42803, 42805, 42807, 42809, 42811, 42813, 42815, 42817, 42819,
      42821, 42823, 42825, 42827, 42829, 42831, 42833, 42835, 42837, 42839,
      42841, 42843, 42845, 42847, 42849, 42851, 42853, 42855, 42857, 42859,
      42861, 42863, 42874, 42876, 7545, 42879, 42881, 42883, 42885, 42887,
      42892, 613, 42897, 42899, 42903, 42905, 42907, 42909, 42911, 42913,
      42915, 42917, 42919, 42921, 614, 604, 609, 620, 618, 670, 647, 669,
      43859, 42933, 42935, 42937, 42939, 42941, 42943, 42945, 42947, 42900,
      642, 7566, 42952, 42954, 42961, 42967, 42969, 42998, 65345, 65346,
      65347, 65348, 65349, 65350, 65351, 65352, 65353, 65354, 65355, 65356,
      65357, 65358, 65359, 65360, 65361, 65362, 65363, 65364, 65365, 65366,
      65367, 65368, 65369, 65370, 66600, 66601, 66602, 66603, 66604, 66605,
      66606, 66607, 66608, 66609, 66610, 66611, 66612, 66613, 66614, 66615,
      66616, 66617, 66618, 66619, 66620, 66621, 66622, 66623, 66624, 66625,
      66626, 66627, 66628, 66629, 66630, 66631, 66632, 66633, 66634, 66635,
      66636, 66637, 66638, 66639, 66776, 66777, 66778, 66779, 66780, 66781,
      66782, 66783, 66784, 66785, 66786, 66787, 66788, 66789, 66790, 66791,
      66792, 66793, 66794, 66795, 66796, 66797, 66798, 66799, 66800, 66801,
      66802, 66803, 66804, 66805, 66806, 66807, 66808, 66809, 66810, 66811,
      66967, 66968, 66969, 66970, 66971, 66972, 66973, 66974, 66975, 66976,
      66977, 66979, 66980, 66981, 66982, 66983, 66984, 66985, 66986, 66987,
      66988, 66989, 66990, 66991, 66992, 66993, 66995, 66996, 66997, 66998,
      66999, 67000, 67001, 67003, 67004, 68800, 68801, 68802, 68803, 68804,
      68805, 68806, 68807, 68808, 68809, 68810, 68811, 68812, 68813, 68814,
      68815, 68816, 68817, 68818, 68819, 68820, 68821, 68822, 68823, 68824,
      68825, 68826, 68827, 68828, 68829, 68830, 68831, 68832, 68833, 68834,
      68835, 68836, 68837, 68838, 68839, 68840, 68841, 68842, 68843, 68844,
      68845, 68846, 68847, 68848, 68849, 68850, 71872, 71873, 71874, 71875,
      71876, 71877, 71878, 71879, 71880, 71881, 71882, 71883, 71884, 71885,
      71886, 71887, 71888, 71889, 71890, 71891, 71892, 71893, 71894, 71895,
      71896, 71897, 71898, 71899, 71900, 71901, 71902, 71903, 93792, 93793,
      93794, 93795, 93796, 93797, 93798, 93799, 93800, 93801, 93802, 93803,
      93804, 93805, 93806, 93807, 93808, 93809, 93810, 93811, 93812, 93813,
      93814, 93815, 93816, 93817, 93818, 93819, 93820, 93821, 93822, 93823,
      125218, 125219, 125220, 125221, 125222, 125223, 125224, 125225, 125226,
      125227, 125228, 125229, 125230, 125231, 125232, 125233, 125234, 125235,
      125236, 125237, 125238, 125239, 125240, 125241, 125242, 125243, 125244,
      125245, 125246, 125247, 125248, 125249, 125250, 125251>>

\* The capital I with a dot above, the one character that lower() changes
\* to two: a small i and a combining dot above.
DottedCapitalI == 304
LowerOfDottedCapitalI == <<105, 775>>

\* c.lower() for every code point that lower() changes to one code point.
LowerCaseOf ==
    [c \in {UpperLetters[i] : i \in DOMAIN UpperLetters} |->
        LowerLetters[CHOOSE i \in DOMAIN UpperLetters : UpperLetters[i] = c]]

\* chr(c).lower(), as a sequence of code points.
LowerChar(c) ==
    IF c = DottedCapitalI THEN LowerOfDottedCapitalI
    ELSE IF c \in DOMAIN LowerCaseOf THEN <<LowerCaseOf[c]>>
    ELSE <<c>>

\* The ranges (first, last) of the cased code points that are not
\* case-ignorable.
CasedRanges ==
    <<<<65, 90>>, <<97, 122>>, <<170, 170>>, <<181, 181>>, <<186, 186>>,
      <<192, 214>>, <<216, 246>>, <<248, 442>>, <<444, 447>>, <<452, 659>>,
      <<661, 687>>, <<880, 883>>, <<886, 887>>, <<891, 893>>, <<895, 895>>,
      <<902, 902>>, <<904, 906>>, <<908, 908>>, <<910, 929>>, <<931, 1013>>,
      <<1015, 1153>>, <<1162, 1327>>, <<1329, 1366>>, <<1376, 1416>>,
      <<4256, 4293>>, <<4295, 4295>>, <<4301, 4301>>, <<4304, 4346>>,
      <<4349, 4351>>, <<5024, 5109>>, <<5112, 5117>>, <<7296, 7304>>,
      <<7312, 7354>>, <<7357, 7359>>, <<7424, 7467>>, <<7531, 7543>>,
      <<7545, 7578>>, <<7680, 7957>>, <<7960, 7965>>, <<7968, 8005>>,
      <<8008, 8013>>, <<8016, 8023>>, <<8025, 8025>>, <<8027, 8027>>,
      <<8029, 8029>>, <<8031, 8061>>, <<8064, 8116>>, <<8118, 8124>>,
      <<8126, 8126>>, <<8130, 8132>>, <<8134, 8140>>, <<8144, 8147>>,
      <<8150, 8155>>, <<8160, 8172>>, <<8178, 8180>>, <<8182, 8188>>,
      <<8450, 8450>>, <<8455, 8455>>, <<8458, 8467>>, <<8469, 8469>>,
      <<8473, 8477>>, <<8484, 8484>>, <<8486, 8486>>, <<8488, 8488>>,
      <<8490, 8493>>, <<8495, 8500>>, <<8505, 8505>>, <<8508, 8511>>,
      <<8517, 8521>>, <<8526, 8526>>, <<8544, 8575>>, <<8579, 8580>>,
      <<9398, 9449>>, <<11264, 11387>>, <<11390, 11492>>, <<11499, 11502>>,
      <<11506, 11507>>, <<11520, 11557>>, <<11559, 11559>>, <<11565, 11565>>,
      <<42560, 42605>>, <<42624, 42651>>, <<42786, 42863>>, <<42865, 42887>>,
      <<42891, 42894>>, <<42896, 42954>>, <<42960, 42961>>, <<42963, 42963>>,
      <<42965, 42969>>, <<42997, 42998>>, <<43002, 43002>>, <<43824, 43866>>,
      <<43872, 43880>>, <<43888, 43967>>, <<64256, 64262>>, <<64275, 64279>>,
      <<65313, 65338>>, <<65345, 65370>>, <<66560, 66639>>, <<66736, 66771>>,
      <<66776, 66811>>, <<66928, 66938>>, <<66940, 66954>>, <<66956, 66962>>,
      <<66964, 66965>>, <<66967, 66977>>, <<66979, 66993>>, <<66995, 67001>>,
      <<67003, 67004>>, <<68736, 68786>>, <<68800, 68850>>, <<71840, 71903>>,
      <<93760, 93823>>, <<119808, 119892>>, <<119894, 119964>>,
      <<119966, 119967>>, <<119970, 119970>>, <<119973, 119974>>,
      <<119977, 119980>>, <<119982, 119993>>, <<119995, 119995>>,
      <<119997, 120003>>, <<120005, 120069>>, <<120071, 120074>>,
      <<120077, 120084>>, <<120086, 120092>>, <<120094, 120121>>,
      <<120123, 120126>>, <<120128, 120132>>, <<120134, 120134>>,
      <<120138, 120144>>, <<120146, 120485>>, <<120488, 120512>>,
      <<120514, 120538>>, <<120540, 120570>>, <<120572, 120596>>,
      <<120598, 120628>>, <<120630, 120654>>, <<120656, 120686>>,
      <<120688, 120712>>, <<120714, 120744>>, <<120746, 120770>>,
      <<120772, 120779>>, <<122624, 122633>>, <<122635, 122654>>,
      <<125184, 125251>>, <<127280, 127305>>, <<127312, 127337>>,
      <<127344, 127369>>>>

\* The ranges (first, last) of the case-ignorable code points: marks,
\* modifiers and word-internal punctuation, which lower() skips when it
\* looks for the end of a word.
CaseIgnorableRanges ==
    <<<<39, 39>>, <<46, 46>>, <<58, 58>>, <<94, 94>>, <<96, 96>>,
      <<168, 168>>, <<173, 173>>, <<175, 175>>, <<180, 180>>, <<183, 184>>,
      <<688, 879>>, <<884, 885>>, <<890, 890>>, <<900, 901>>, <<903, 903>>,
      <<1155, 1161>>, <<1369, 1369>>, <<1375, 1375>>, <<1425, 1469>>,
      <<1471, 1471>>, <<1473, 1474>>, <<1476, 1477>>, <<1479, 1479>>,
      <<1524, 1524>>, <<1536, 1541>>, <<1552, 1562>>, <<1564, 1564>>,
      <<1600, 1600>>, <<1611, 1631>>, <<1648, 1648>>, <<1750, 1757>>,
      <<1759, 1768>>, <<1770, 1773>>, <<1807, 1807>>, <<1809, 1809>>,
      <<1840, 1866>>, <<1958, 1968>>, <<2027, 2037>>, <<2042, 2042>>,
      <<2045, 2045>>, <<2070, 2093>>, <<2137, 2139>>, <<2184, 2184>>,
      <<2192, 2193>>, <<2200, 2207>>, <<2249, 2306>>, <<2362, 2362>>,
      <<2364, 2364>>, <<2369, 2376>>, <<2381, 2381>>, <<2385, 2391>>,
      <<2402, 2403>>, <<2417, 2417>>, <<2433, 2433>>, <<2492, 2492>>,
      <<2497, 2500>>, <<2509, 2509>>, <<2530, 2531>>, <<2558, 2558>>,
      <<2561, 2562>>, <<2620, 2620>>, <<2625, 2626>>, <<2631, 2632>>,
      <<2635, 2637>>, <<2641, 2641>>, <<2672, 2673>>, <<2677, 2677>>,
      <<2689, 2690>>, <<2748, 2748>>, <<2753, 2757>>, <<2759, 2760>>,
      <<2765, 2765>>, <<2786, 2787>>, <<2810, 2815>>, <<2817, 2817>>,
      <<2876, 2876>>, <<2879, 2879>>, <<2881, 2884>>, <<2893, 2893>>,
      <<2901, 2902>>, <<2914, 2915>>, <<2946, 2946>>, <<3008, 3008>>,
      <<3021, 3021>>, <<3072, 3072>>, <<3076, 3076>>, <<3132, 3132>>,
      <<3134, 3136>>, <<3142, 3144>>, <<3146, 3149>>, <<3157, 3158>>,
      <<3170, 3171>>, <<3201, 3201>>, <<3260, 3260>>, <<3263, 3263>>,
      <<3270, 3270>>, <<3276, 3277>>, <<3298, 3299>>, <<3328, 3329>>,
      <<3387, 3388>>, <<3393, 3396>>, <<3405, 3405>>, <<3426, 3427>>,
      <<3457, 3457>>, <<3530, 3530>>, <<3538, 3540>>, <<3542, 3542>>,
      <<3633, 3633>>, <<3636, 3642>>, <<3654, 3662>>, <<3761, 3761>>,
      <<3764, 3772>>, <<3782, 3782>>, <<3784, 3789>>, <<3864, 3865>>,
      <<3893, 3893>>, <<3895, 3895>>, <<3897, 3897>>, <<3953, 3966>>,
      <<3968, 3972>>, <<3974, 3975>>, <<3981, 3991>>, <<3993, 4028>>,
      <<4038, 4038>>, <<4141, 4144>>, <<4146, 4151>>, <<4153, 4154>>,
      <<4157, 4158>>, <<4184, 4185>>, <<4190, 4192>>, <<4209, 4212>>,
      <<4226, 4226>>, <<4229, 4230>>, <<4237, 4237>>, <<4253, 4253>>,
      <<4348, 4348>>, <<4957, 4959>>, <<5906, 5908>>, <<5938, 5939>>,
      <<5970, 5971>>, <<6002, 6003>>, <<6068, 6069>>, <<6071, 6077>>,
      <<6086, 6086>>, <<6089, 6099>>, <<6103, 6103>>, <<6109, 6109>>,
      <<6155, 6159>>, <<6211, 6211>>, <<6277, 6278>>, <<6313, 6313>>,
      <<6432, 6434>>, <<6439, 6440>>, <<6450, 6450>>, <<6457, 6459>>,
      <<6679, 6680>>, <<6683, 6683>>, <<6742, 6742>>, <<6744, 6750>>,
      <<6752, 6752>>, <<6754, 6754>>, <<6757, 6764>>, <<6771, 6780>>,
      <<6783, 6783>>, <<6823, 6823>>, <<6832, 6862>>, <<6912, 6915>>,
      <<6964, 6964>>, <<6966, 6970>>, <<6972, 6972>>, <<6978, 6978>>,
      <<7019, 7027>>, <<7040, 7041>>, <<7074, 7077>>, <<7080, 7081>>,
      <<7083, 7085>>, <<7142, 7142>>, <<7144, 7145>>, <<7149, 7149>>,
      <<7151, 7153>>, <<7212, 7219>>, <<7222, 7223>>, <<7288, 7293>>,
      <<7376, 7378>>, <<7380, 7392>>, <<7394, 7400>>, <<7405, 7405>>,
      <<7412, 7412>>, <<7416, 7417>>, <<7468, 7530>>, <<7544, 7544>>,
      <<7579, 7679>>, <<8125, 8125>>, <<8127, 8129>>, <<8141, 8143>>,
      <<8157, 8159>>, <<8173, 8175>>, <<8189, 8190>>, <<8203, 8207>>,
      <<8216, 8217>>, <<8228, 8228>>, <<8231, 8231>>, <<8234, 8238>>,
      <<8288, 8292>>, <<8294, 8303>>, <<8305, 8305>>, <<8319, 8319>>,
      <<8336, 8348>>, <<8400, 8432>>, <<11388, 11389>>, <<11503, 11505>>,
      <<11631, 11631>>, <<11647, 11647>>, <<11744, 11775>>, <<11823, 11823>>,
      <<12293, 12293>>, <<12330, 12333>>, <<12337, 12341>>, <<12347, 12347>>,
      <<12441, 12446>>, <<12540, 12542>>, <<40981, 40981>>, <<42232, 42237>>,
      <<42508, 42508>>, <<42607, 42610>>, <<42612, 42621>>, <<42623, 42623>>,
      <<42652, 42655>>, <<42736, 42737>>, <<42752, 42785>>, <<42864, 42864>>,
      <<42888, 42890>>, <<42994, 42996>>, <<43000, 43001>>, <<43010, 43010>>,
      <<43014, 43014>>, <<43019, 43019>>, <<43045, 43046>>, <<43052, 43052>>,
      <<43204, 43205>>, <<43232, 43249>>, <<43263, 43263>>, <<43302, 43309>>,
      <<43335, 43345>>, <<43392, 43394>>, <<43443, 43443>>, <<43446, 43449>>,
      <<43452, 43453>>, <<43471, 43471>>, <<43493, 43494>>, <<43561, 43566>>,
      <<43569, 43570>>, <<43573, 43574>>, <<43587, 43587>>, <<43596, 43596>>,
      <<43632, 43632>>, <<43644, 43644>>, <<43696, 43696>>, <<43698, 43700>>,
      <<43703, 43704>>, <<43710, 43711>>, <<43713, 43713>>, <<43741, 43741>>,
      <<43756, 43757>>, <<43763, 43764>>, <<43766, 43766>>, <<43867, 43871>>,
      <<43881, 43883>>, <<44005, 44005>>, <<44008, 44008>>, <<44013, 44013>>,
      <<64286, 64286>>, <<64434, 64450>>, <<65024, 65039>>, <<65043, 65043>>,
      <<65056, 65071>>, <<65106, 65106>>, <<65109, 65109>>, <<65279, 65279>>,
      <<65287, 65287>>, <<65294, 65294>>, <<65306, 65306>>, <<65342, 65342>>,
      <<65344, 65344>>, <<65392, 65392>>, <<65438, 65439>>, <<65507, 65507>>,
      <<65529, 65531>>, <<66045, 66045>>, <<66272, 66272>>, <<66422, 66426>>,
      <<67456, 67461>>, <<67463, 67504>>, <<67506, 67514>>, <<68097, 68099>>,
      <<68101, 68102>>, <<68108, 68111>>, <<68152, 68154>>, <<68159, 68159>>,
      <<68325, 68326>>, <<68900, 68903>>, <<69291, 69292>>, <<69446, 69456>>,
      <<69506, 69509>>, <<69633, 69633>>, <<69688, 69702>>, <<69744, 69744>>,
      <<69747, 69748>>, <<69759, 69761>>, <<69811, 69814>>, <<69817, 69818>>,
      <<69821, 69821>>, <<69826, 69826>>, <<69837, 69837>>, <<69888, 69890>>,
      <<69927, 69931>>, <<69933, 69940>>, <<70003, 70003>>, <<70016, 70017>>,
      <<70070, 70078>>, <<70089, 70092>>, <<70095, 70095>>, <<70191, 70193>>,
      <<70196, 70196>>, <<70198, 70199>>, <<70206, 70206>>, <<70367, 70367>>,
      <<70371, 70378>>, <<70400, 70401>>, <<70459, 70460>>, <<70464, 70464>>,
      <<70502, 70508>>, <<70512, 70516>>, <<70712, 70719>>, <<70722, 70724>>,
      <<70726, 70726>>, <<70750, 70750>>, <<70835, 70840>>, <<70842, 70842>>,
      <<70847, 70848>>, <<70850, 70851>>, <<71090, 71093>>, <<71100, 71101>>,
      <<71103, 71104>>, <<71132, 71133>>, <<71219, 71226>>, <<71229, 71229>>,
      <<71231, 71232>>, <<71339, 71339>>, <<71341, 71341>>, <<71344, 71349>>,
      <<71351, 71351>>, <<71453, 71455>>, <<71458, 71461>>, <<71463, 71467>>,
      <<71727, 71735>>, <<71737, 71738>>, <<71995, 71996>>, <<71998, 71998>>,
      <<72003, 72003>>, <<72148, 72151>>, <<72154, 72155>>, <<72160, 72160>>,
      <<72193, 72202>>, <<72243, 72248>>, <<72251, 72254>>, <<72263, 72263>>,
      <<72273, 72278>>, <<72281, 72283>>, <<72330, 72342>>, <<72344, 72345>>,
      <<72752, 72758>>, <<72760, 72765>>, <<72767, 72767>>, <<72850, 72871>>,
      <<72874, 72880>>, <<72882, 72883>>, <<72885, 72886>>, <<73009, 73014>>,
      <<73018, 73018>>, <<73020, 73021>>, <<73023, 73029>>, <<73031, 73031>>,
      <<73104, 73105>>, <<73109, 73109>>, <<73111, 73111>>, <<73459, 73460>>,
      <<78896, 78904>>, <<92912, 92916>>, <<92976, 92982>>, <<92992, 92995>>,
      <<94031, 94031>>, <<94095, 94111>>, <<94176, 94177>>, <<94179, 94180>>,
      <<110576, 110579>>, <<110581, 110587>>, <<110589, 110590>>,
      <<113821, 113822>>, <<113824, 113827>>, <<118528, 118573>>,
      <<118576, 118598>>, <<119143, 119145>>, <<119155, 119170>>,
      <<119173, 119179>>, <<119210, 119213>>, <<119362, 119364>>,
      <<121344, 121398>>, <<121403, 121452>>, <<121461, 121461>>,
      <<121476, 121476>>, <<121499, 121503>>, <<121505, 121519>>,
      <<122880, 122886>>, <<122888, 122904>>, <<122907, 122913>>,
      <<122915, 122916>>, <<122918, 122922>>, <<123184, 123197>>,
      <<123566, 123566>>, <<123628, 123631>>, <<125136, 125142>>,
      <<125252, 125259>>, <<127995, 127999>>, <<917505, 917505>>,
      <<917536, 917631>>, <<917760, 917999>>>>

\* Cased characters: the letters that have a case.
CasedLetters ==
    UNION {CasedRanges[k][1]..CasedRanges[k][2] : k \in DOMAIN CasedRanges}

\* Case-ignorable characters.
CaseIgnorable ==
    UNION {CaseIgnorableRanges[k][1]..CaseIgnorableRanges[k][2] :
              k \in DOMAIN CaseIgnorableRanges}

\* The nearest character before position i that is not case-ignorable is a
\* cased one.
CasedBefore(s, i) ==
    \E j \in 1..(i - 1) :
        /\ s[j] \in CasedLetters
        /\ \A k \in (j + 1)..(i - 1) : s[k] \in CaseIgnorable

\* The nearest character after position i that is not case-ignorable is a
\* cased one.
CasedAfter(s, i) ==
    \E j \in (i + 1)..Len(s) :
        /\ s[j] \in CasedLetters
        /\ \A k \in (i + 1)..(j - 1) : s[k] \in CaseIgnorable

CapitalSigma == 931
FinalSmallSigma == 962

\* A capital sigma at the end of a word lowers to the final sigma.
FinalSigma(s, i) ==
    s[i] = CapitalSigma /\ CasedBefore(s, i) /\ ~CasedAfter(s, i)

RECURSIVE LowerFrom(_, _)
\* The lower-case form of s from position i on.
LowerFrom(s, i) ==
    IF i > Len(s) THEN <<>>
    ELSE (IF FinalSigma(s, i) THEN <<FinalSmallSigma>> ELSE LowerChar(s[i]))
             \o LowerFrom(s, i + 1)

\* s.lower()
Lower(s) == LowerFrom(s, 1)


\* The code points of the literal texts that update_issue_status puts around
\* a name.

\* "Cannot transition to '"
CannotTransitionTo ==
    <<67, 97, 110, 110, 111, 116, 32, 116, 114, 97, 110, 115, 105, 116, 105,
      111, 110, 32, 116, 111, 32, 39>>

\* "'. Available transitions: "
AvailableTransitions ==
    <<39, 46, 32, 65, 118, 97, 105, 108, 97, 98, 108, 101, 32, 116, 114, 97,
      110, 115, 105, 116, 105, 111, 110, 115, 58, 32>>

\* ", "
CommaSpace ==
    <<44, 32>>

\* "Successfully updated "
SuccessfullyUpdated ==
    <<83, 117, 99, 99, 101, 115, 115, 102, 117, 108, 108, 121, 32, 117, 112,
      100, 97, 116, 101, 100, 32>>

\* " status to "
StatusTo ==
    <<32, 115, 116, 97, 116, 117, 115, 32, 116, 111, 32>>

\* The code points of the issue key.
CodePointsOf == (IssueKey :> <<80, 82, 79, 74, 45, 49>>)

-----------------------------------------------------------------------------
(* The backend's data: what self.jira's calls can return *)

\* The story-point field (customfield_10002) of an issue, when it has one.
WithStoryPoints(fields, v) == fields @@ ("customfield_10002" :> v)

IssueFields(summary, status_name, assignee, type_name, priority) ==
    [summary |-> summary,
     description |-> "As written by the reporter",
     status |-> [name |-> status_name],
     assignee |-> assignee,
     reporter |-> [displayName |-> "Rita"],
     created |-> "2024-01-02T09:00:00.000+0000",
     updated |-> "2024-01-03T09:00:00.000+0000",
     priority |-> priority,
     issuetype |-> [name |-> type_name],
     components |-> <<[name |-> "web"]>>,
     labels |-> <<"ui">>,
     comment |-> [comments |-> <<[author |-> [displayName |-> "Rita"],
                                 body |-> "Please review",
                                 created |-> "2024-01-02T10:00:00.000+0000"]>>]]

Alice == [displayName |-> "Alice"]
High == [name |-> "High"]

\* The issue update_issue_status acts on: its status is the backend's.
Issue1 ==
    [key |-> IssueKey,
     fields |-> WithStoryPoints(
                    IssueFields("Login page", status, Alice, "Story", High),
                    Num(5))]

\* Unassigned, estimated.
Issue2 ==
    [key |-> "PROJ-2",
     fields |-> WithStoryPoints(
                    IssueFields("Fix crash", "In Progress", None, "Bug", High),
                    Num(3))]

\* Unassigned, the story-point field present and null.
Issue3 ==
    [key |-> "PROJ-3",
     fields |-> WithStoryPoints(
                    IssueFields("Export report", "Closed", None, "Story", High),
                    None)]

\* No story-point field at all; a status name that differs from Done by case.
Issue4 ==
    [key |-> "PROJ-4",
     fields |-> IssueFields("Tidy styles", "done", Alice, "Bug", High)]

\* No priority; a negative estimate.
Issue5 ==
    [key |-> "PROJ-5",
     fields |-> WithStoryPoints(
                    IssueFields("Remove legacy", "Completed", Alice, "Task", None),
                    Num(-2))]

Issues == {Issue1, Issue2, Issue3, Issue4, Issue5}

\* Longest list of issues a search returns in the model.
MaxIssues == 2

\* Longest list of issues the search for a sprint after the first of a
\* listing returns in the model.
MaxLaterIssues == 1

\* The lists of at most n issues a search can return.
IssueLists(n) ==
    UNION {[1..k -> Issues] : k \in 0..(IF n < MaxIssues THEN n ELSE MaxIssues)}

\* A sprint carrying every optional attribute, and one carrying none.
Sprint7(state) ==
    [id |-> 7, name |-> "Sprint 7", state |-> state,
     startDate |-> Str("2024-01-01T00:00:00.000Z"),
     endDate |-> Str("2024-01-14T23:59:59.000Z"),
     goal |-> Str("Ship login")]

Sprint8(state) == [id |-> 8, name |-> "Sprint 8", state |-> state]

\* What jira.sprints(board_id, state) can return.
SprintLists(state) ==
    {<<>>, <<Sprint7(state)>>, <<Sprint8(state)>>,
     <<Sprint7(state), Sprint8(state)>>}

\* What jira.issue(key, expand='changelog').changelog can hold.
Changelogs ==
    {[histories |-> <<>>],
     [histories |-> <<[author |-> [displayName |-> "Alice"],
                       created |-> "2024-01-03T09:00:00.000+0000",
                       items |-> <<[field |-> "status",
                                    fromString |-> "To Do",
                                    toString |-> "In Progress"]>>]>>]}

\* Transitions of the backend's workflow: a backend-assigned id (Jira's ids
\* are non-empty strings of digits), a name, and the status the transition
\* leads to.  Two of the names differ by case only, and one is a Greek word
\* in capitals that ends in a sigma.
Transitions ==
    {\* "To Do"
     [id |-> "11", to |-> "To Do",
      name |-> <<84, 111, 32, 68, 111>>],
     \* "In Progress"
     [id |-> "21", to |-> "In Progress",
      name |-> <<73, 110, 32, 80, 114, 111, 103, 114, 101, 115, 115>>],
     \* "Done"
     [id |-> "31", to |-> "Done",
      name |-> <<68, 111, 110, 101>>],
     \* "DONE"
     [id |-> "41", to |-> "DONE",
      name |-> <<68, 79, 78, 69>>],
     \* "ΟΔΟΣ"
     [id |-> "51", to |-> "ΟΔΟΣ",
      name |-> <<927, 916, 927, 931>>]}

\* Longest list of transitions the backend offers in the model.
MaxTransitions == 3

\* What jira.transitions(issue_key) can return: transitions in any order.
TransitionLists ==
    {ts \in UNION {[1..k -> Transitions] : k \in 0..MaxTransitions} :
        \A i, j \in DOMAIN ts : i # j => ts[i] # ts[j]}

\* The status names a caller asks for.  The last two are the Greek word in
\* small letters, the first ending in the final sigma and the second in
\* the plain small sigma.
Targets ==
    {\* "done"
     <<100, 111, 110, 101>>,
     \* "In Progress"
     <<73, 110, 32, 80, 114, 111, 103, 114, 101, 115, 115>>,
     \* "Blocked"
     <<66, 108, 111, 99, 107, 101, 100>>,
     \* "οδος"
     <<959, 948, 959, 962>>,
     \* "οδοσ"
     <<959, 948, 959, 963>>}

\* A start date whose time of day is the last second of the day.
StartAtEndOfDay(date) == date \o "T23:59:59.000Z"

\* f"{start_date}T00:00:00.000Z"
StartOfDay(date) == date \o "T00:00:00.000Z"

\* f"{end_date}T23:59:59.000Z"
EndOfDay(date) == date \o "T23:59:59.000Z"

\* What jira.create_sprint can return: a sprint echoing nothing but its id
\* and name, one carrying its state and dates but no goal, or one carrying
\* every attribute.
CreatedSprints(name, startDate, endDate, goal) ==
    {[id |-> 9, name |-> name],
     [id |-> 9, name |-> name, state |-> "future",
      startDate |-> Str(startDate), endDate |-> Str(endDate)],
     [id |-> 9, name |-> name, state |-> "active",
      startDate |-> Str(startDate), endDate |-> Str(endDate),
      goal |-> Str("Backend goal")]}

\* Messages of the faults a backend call can raise; str(e) of an exception
\* constructed without arguments is the empty string.
FaultMessages == {"", "JiraError HTTP 500"}

\* str(e) of the AttributeError raised by None.name
NoneHasNoName == "'NoneType' object has no attribute 'name'"

-----------------------------------------------------------------------------
(* Tool handlers *)

CompletedStatuses == {"Done", "Closed", "Completed"}

\* An except block that hands back what the handler had gathered so far.
ExceptReturnPartial(locals, message) ==
    IF "sprint_details" \in DOMAIN locals
    THEN [sprints |-> locals.sprint_details, error |-> message]
    ELSE [error |-> message]

\* The handlers' except block: return {"error": str(e)}
ExceptReturn(locals, message) == [error |-> message]

\* A per-issue record whose assignee defaults to the empty string.
SprintIssueBlankAssignee(issue) ==
    [key |-> issue.key,
     summary |-> issue.fields.summary,
     status |-> issue.fields.status.name,
     assignee |-> Getattr(issue.fields.assignee, "displayName", ""),
     story_points |-> Getattr(issue.fields, "customfield_10002", Num(0))]

\* The per-issue record of get_sprint_details.
SprintIssue(issue) ==
    [key |-> issue.key,
     summary |-> issue.fields.summary,
     status |-> issue.fields.status.name,
     assignee |-> Getattr(issue.fields.assignee, "displayName", "Unassigned"),
     story_points |-> Getattr(issue.fields, "customfield_10002", Num(0))]

RECURSIVE SumStoryPoints(_)
\* sum(issue.get("story_points", 0) or 0 for issue in records)
SumStoryPoints(records) ==
    IF records = <<>> THEN 0
    ELSE OrZero(Getattr(Head(records), "story_points", Num(0)))
         + SumStoryPoints(Tail(records))

\* [r for r in records if r["status"] in ["Done", "Closed", "Completed"]]
CompletedOf(records) == SelectSeq(records, LAMBDA r : r.status \in CompletedStatuses)

SprintMetrics(records) ==
    LET total_story_points == SumStoryPoints(records)
        completed_points == SumStoryPoints(CompletedOf(records))
    IN  [total_issues |-> Len(records),
         total_story_points |-> total_story_points,
         completed_story_points |-> completed_points,
         completion_percentage |-> Percentage(completed_points, total_story_points)]

\* sprint_info of get_sprint_details for one sprint and the issues found in it.
SprintInfo(sprint, issues) ==
    LET records == [k \in DOMAIN issues |-> SprintIssue(issues[k])]
    IN  [id |-> sprint.id,
         name |-> sprint.name,
         state |-> sprint.state,
         start_date |-> Getattr(sprint, "startDate", None),
         end_date |-> Getattr(sprint, "endDate", None),
         goal |-> Getattr(sprint, "goal", Str("")),
         issues |-> records,
         metrics |-> SprintMetrics(records)]

\* get_issue_details: the comments list.
IssueComments(issue) ==
    [k \in DOMAIN issue.fields.comment.comments |->
        LET comment == issue.fields.comment.comments[k]
        IN  [author |-> comment.author.displayName,
             body |-> comment.body,
             created |-> comment.created]]

\* get_issue_details: the history list.
IssueHistory(changelog) ==
    [k \in DOMAIN changelog.histories |->
        LET history == changelog.histories[k]
        IN  [author |-> history.author.displayName,
             created |-> history.created,
             items |-> [n \in DOMAIN history.items |->
                          [field |-> history.items[n].field,
                           from_value |-> history.items[n].fromString,
                           to_value |-> history.items[n].toString]]]]

\* Whether issue.fields.priority.name raises AttributeError.
PriorityNameRaises(issue) == issue.fields.priority = None

\* get_issue_details: the issue_details record.
IssueDetails(issue, comments, history) ==
    [key |-> issue.key,
     summary |-> issue.fields.summary,
     description |-> issue.fields.description,
     status |-> issue.fields.status.name,
     assignee |-> Getattr(issue.fields.assignee, "displayName", "Unassigned"),
     reporter |-> issue.fields.reporter.displayName,
     created |-> issue.fields.created,
     updated |-> issue.fields.updated,
     priority |-> issue.fields.priority.name,
     issue_type |-> issue.fields.issuetype.name,
     story_points |-> Getattr(issue.fields, "customfield_10002", None),
     sprint |-> Getattr(issue.fields, "customfield_10001", None),
     components |-> [k \in DOMAIN issue.fields.components |->
                        issue.fields.components[k].name],
     labels |-> issue.fields.labels,
     comments |-> comments,
     history |-> history]

\* create_issue: whether an optional argument goes into the field map.
Provided(v) == Truthy(v)

\* create_issue: the field map sent to the backend.
IssueDict(a) ==
    [project |-> [key |-> a.project_key],
     issuetype |-> [name |-> a.issue_type],
     summary |-> a.summary,
     description |-> a.description]
    @@ (IF Provided(a.assignee)
        THEN "assignee" :> [name |-> a.assignee.str] ELSE <<>>)
    @@ (IF Provided(a.priority)
        THEN "priority" :> [name |-> a.priority.str] ELSE <<>>)
    @@ (IF Provided(a.labels)
        THEN "labels" :> a.labels.list ELSE <<>>)
    @@ (IF Provided(a.story_points)
        THEN "customfield_10002" :> a.story_points.num ELSE <<>>)

\* update_issue_status: t['name'].lower() == transition_to.lower()
NameMatches(name, transition_to) == Lower(name) = Lower(transition_to)

RECURSIVE FindTransition(_, _)
\* update_issue_status: the loop that sets transition_id and breaks at the
\* first match; None when no transition matches.
FindTransition(transitions, transition_to) ==
    IF transitions = <<>> THEN None
    ELSE IF NameMatches(Head(transitions).name, transition_to)
         THEN Str(Head(transitions).id)
         ELSE FindTransition(Tail(transitions), transition_to)

\* update_issue_status: the record returned when no transition was found.
CannotTransition(transitions, transition_to) ==
    [success |-> FALSE,
     message |-> CannotTransitionTo \o transition_to
                 \o AvailableTransitions
                 \o Join(CommaSpace, [k \in DOMAIN transitions |-> transitions[k].name])]

\* The backend's effect of transition_issue(issue, id): the issue takes the
\* status the transition with that id leads to.
StatusAfter(transitions, id) ==
    (CHOOSE t \in {transitions[k] : k \in DOMAIN transitions} : t.id = id).to

\* The per-issue record of get_project_backlog.
BacklogItem(issue) ==
    [key |-> issue.key,
     summary |-> issue.fields.summary,
     issue_type |-> issue.fields.issuetype.name,
     priority |-> issue.fields.priority.name,
     status |-> issue.fields.status.name,
     assignee |-> Getattr(issue.fields.assignee, "displayName", "Unassigned"),
     story_points |-> Getattr(issue.fields, "customfield_10002", Num(0))]

\* create_sprint: the record returned for the sprint the backend created.
CreatedSprint(new_sprint, a) ==
    [id |-> new_sprint.id,
     name |-> new_sprint.name,
     state |-> Getattr(new_sprint, "state", "future"),
     start_date |-> Getattr(new_sprint, "startDate", Str(a.start_date)),
     end_date |-> Getattr(new_sprint, "endDate", Str(a.end_date)),
     goal |-> Getattr(new_sprint, "goal", Str(a.goal)),
     message |-> "Successfully created sprint: " \o a.name]

\* A completed-status test that also accepts the name in lower case.
CompletedIssuesAnyCase(issues) ==
    SelectSeq(issues, LAMBDA issue :
        issue.fields.status.name \in CompletedStatuses \cup {"done", "closed", "completed"})

\* generate_sprint_report: the issues whose status name is a completed one.
CompletedIssues(issues) ==
    SelectSeq(issues, LAMBDA issue : issue.fields.status.name \in CompletedStatuses)

RECURSIVE ReportStoryPoints(_)
\* sum(getattr(issue.fields, "customfield_10002", 0) or 0 for issue in issues)
ReportStoryPoints(issues) ==
    IF issues = <<>> THEN 0
    ELSE OrZero(Getattr(Head(issues).fields, "customfield_10002", Num(0)))
         + ReportStoryPoints(Tail(issues))

RECURSIVE GroupByTypeRestarting(_, _)
\* A grouping that starts the entry of an issue's type afresh at every
\* issue, whether or not the type was met before.
GroupByTypeRestarting(issues, issue_types) ==
    IF issues = <<>> THEN issue_types
    ELSE LET issue == Head(issues)
             issue_type == issue.fields.issuetype.name
             completed == IF issue.fields.status.name \in CompletedStatuses THEN 1 ELSE 0
             entered == [t \in DOMAIN issue_types \cup {issue_type} |->
                            IF t = issue_type
                            THEN [total |-> 1, completed |-> completed]
                            ELSE issue_types[t]]
         IN  GroupByTypeRestarting(Tail(issues), entered)

RECURSIVE GroupByType(_, _)
\* generate_sprint_report: the loop that fills issue_types, one issue at a
\* time in arrival order.
GroupByType(issues, issue_types) ==
    IF issues = <<>> THEN issue_types
    ELSE LET issue == Head(issues)
             issue_type == issue.fields.issuetype.name
             entered == IF issue_type \in DOMAIN issue_types
                        THEN issue_types
                        ELSE issue_types @@ (issue_type :> [total |-> 0, completed |-> 0])
             counted == [entered EXCEPT ![issue_type].total = @ + 1]
             done == IF issue.fields.status.name \in CompletedStatuses
                     THEN [counted EXCEPT ![issue_type].completed = @ + 1]
                     ELSE counted
         IN  GroupByType(Tail(issues), done)

\* generate_sprint_report: the metrics of the report.
ReportMetrics(issues) ==
    LET total_issues == Len(issues)
        completed_issues == Len(CompletedIssues(issues))
        total_story_points == ReportStoryPoints(issues)
        completed_points == ReportStoryPoints(CompletedIssues(issues))
    IN  [total_issues |-> total_issues,
         completed_issues |-> completed_issues,
         completion_percentage |-> Percentage(completed_issues, total_issues),
         total_story_points |-> total_story_points,
         completed_story_points |-> completed_points,
         story_point_completion |-> Percentage(completed_points, total_story_points),
         issue_types |-> GroupByType(issues, <<>>)]

\* generate_sprint_report: the report record.
SprintReport(sprint, issues) ==
    [sprint_name |-> sprint.name,
     sprint_goal |-> Getattr(sprint, "goal", Str("")),
     start_date |-> Getattr(sprint, "startDate", Str("")),
     end_date |-> Getattr(sprint, "endDate", Str("")),
     state |-> Getattr(sprint, "state", ""),
     metrics |-> ReportMetrics(issues)]

\* Default of get_project_backlog's max_results.
DefaultMaxResults == 50

\* maxResults of generate_sprint_report's search.
ReportMaxResults == 200

\* The arguments the transport can deliver to each handler.
ArgsOf(h) ==
    CASE h = "get_sprint_details" ->
            [board_id : {42}, sprint_state : {"active", "closed"}]
      [] h = "get_issue_details" ->
            [issue_key : {issue.key : issue \in Issues}]
      [] h = "create_issue" ->
            [project_key : {"PROJ"}, issue_type : {"Story"},
             summary : {"Add search"}, description : {"Search by title"},
             assignee : {None, Str(""), Str("bob")},
             priority : {None, Str("High")},
             labels : {None, List(<<>>), List(<<"ui">>)},
             story_points : {None, Num(0), Num(5)}]
      [] h = "update_issue_status" ->
            [issue_key : {IssueKey}, transition_to : Targets]
      [] h = "assign_issue" ->
            [issue_key : {IssueKey}, assignee : {"bob"}]
      [] h = "add_issue_to_sprint" ->
            [issue_key : {IssueKey}, sprint_id : {7}]
      [] h = "get_project_backlog" ->
            [project_key : {"PROJ"}, max_results : {1, DefaultMaxResults}]
      [] h = "create_sprint" ->
            [board_id : {42}, name : {"Sprint 9"},
             start_date : {"2024-01-01", "2024-02-29"},
             end_date : {"2024-01-14"}, goal : {"", "Ship search"}]
      [] h = "generate_sprint_report" ->
            [board_id : {42}, sprint_id : {7}]

\* The first backend call of each handler.
FirstStep(h) ==
    CASE h = "get_sprint_details" -> "sprints"
      [] h = "get_issue_details" -> "issue"
      [] h = "create_issue" -> "create_issue"
      [] h = "update_issue_status" -> "transitions"
      [] h = "assign_issue" -> "assign_issue"
      [] h = "add_issue_to_sprint" -> "add_issues_to_sprint"
      [] h = "get_project_backlog" -> "search"
      [] h = "create_sprint" -> "create_sprint"
      [] h = "generate_sprint_report" -> "sprint"

\* The backend call the running handler is about to issue.
PendingCall ==
    CASE handler = "get_sprint_details" /\ step = "sprints" ->
            [op |-> "sprints", board_id |-> args.board_id, state |-> args.sprint_state]
      [] handler = "get_sprint_details" /\ step = "search" ->
            [op |-> "search_issues",
             jql |-> "sprint = " \o ToString(loc.sprints[loc.i].id) \o " ORDER BY status"]
      [] handler = "get_issue_details" /\ step = "issue" ->
            [op |-> "issue", id |-> args.issue_key]
      [] handler = "get_issue_details" /\ step = "changelog" ->
            [op |-> "issue", id |-> args.issue_key, expand |-> "changelog"]
      [] handler = "create_issue" ->
            [op |-> "create_issue", fields |-> IssueDict(args)]
      [] handler = "update_issue_status" /\ step = "transitions" ->
            [op |-> "transitions", issue |-> args.issue_key]
      [] handler = "update_issue_status" /\ step = "transition_issue" ->
            [op |-> "transition_issue", issue |-> args.issue_key,
             transition |-> loc.transition_id.str]
      [] handler = "assign_issue" ->
            [op |-> "assign_issue", issue |-> args.issue_key, assignee |-> args.assignee]
      [] handler = "add_issue_to_sprint" ->
            [op |-> "add_issues_to_sprint", sprint_id |-> args.sprint_id,
             issue_keys |-> <<args.issue_key>>]
      [] handler = "get_project_backlog" ->
            [op |-> "search_issues",
             jql |-> "project = " \o args.project_key
                     \o " AND sprint is EMPTY ORDER BY Rank ASC",
             maxResults |-> args.max_results]
      [] handler = "create_sprint" ->
            [op |-> "create_sprint", name |-> args.name, board_id |-> args.board_id,
             startDate |-> StartOfDay(args.start_date),
             endDate |-> EndOfDay(args.end_date),
             goal |-> args.goal]
      [] handler = "generate_sprint_report" /\ step = "sprint" ->
            [op |-> "sprint", id |-> args.sprint_id]
      [] handler = "generate_sprint_report" /\ step = "sprint_report" ->
            [op |-> "sprint_report", board_id |-> args.board_id,
             sprint_id |-> args.sprint_id]
      [] handler = "generate_sprint_report" /\ step = "search" ->
            [op |-> "search_issues",
             jql |-> "sprint = " \o ToString(args.sprint_id),
             maxResults |-> ReportMaxResults]

\* The entry of the call log for the pending call, which returned v.
Returned(v) == [request |-> PendingCall, returned |-> v]

\* The entry of the call log for the pending call, which raised.
Raised(message) == [request |-> PendingCall, raised |-> message]

\* The transport delivers a call to a registered handler.
Invoke ==
    /\ pc = "running"
    /\ handler = "none"
    /\ \E h \in tools :
          /\ handler' = h
          /\ args' \in ArgsOf(h)
          /\ step' = FirstStep(h)
    /\ loc' = NoLocals
    /\ calls' = <<>>
    /\ fault' = NoFault
    /\ result' = NoResult
    /\ UNCHANGED status
    /\ UNCHANGED startup_vars

\* The handler has returned; the transport sends the record to the caller.
\* Nothing of the invocation stays behind in the program.
Respond ==
    /\ handler # "none"
    /\ step = "done"
    /\ handler' = "none"
    /\ args' = NoArgs
    /\ step' = "idle"
    /\ loc' = NoLocals
    /\ calls' = <<>>
    /\ fault' = NoFault
    /\ result' = NoResult
    /\ UNCHANGED status
    /\ UNCHANGED startup_vars

\* A backend call raises; the handler's except block returns the error record.
\* A transition that raised may or may not have taken effect in the backend.
BackendFault ==
    /\ handler # "none"
    /\ step \notin {"idle", "done"}
    /\ \E m \in FaultMessages :
          /\ fault' = [raised |-> TRUE, message |-> m, at |-> Len(calls) + 1]
          /\ result' = ExceptReturn(loc, m)
          /\ calls' = Append(calls, Raised(m))
    /\ step' = "done"
    /\ IF step = "transition_issue"
       THEN status' \in {status, StatusAfter(loc.transitions, loc.transition_id.str)}
       ELSE UNCHANGED status
    /\ UNCHANGED <<handler, args, loc>>
    /\ UNCHANGED startup_vars

\* The AttributeError of None.name, raised by the handler's own code after
\* its backend calls returned.
AttributeError == [raised |-> TRUE, message |-> NoneHasNoName, at |-> 0]

\* sprint_details = []: each invocation starts its own, empty list.
NewSprintDetails == <<>>

\* get_sprint_details: sprints = self.jira.sprints(board_id, sprint_state)
get_sprint_details_sprints ==
    /\ handler = "get_sprint_details"
    /\ step = "sprints"
    /\ \E sprints \in SprintLists(args.sprint_state) :
          /\ calls' = Append(calls, Returned(sprints))
          /\ loc' = [sprints |-> sprints, i |-> 1, sprint_details |-> NewSprintDetails]
          /\ IF sprints = <<>>
             THEN /\ step' = "done"
                  /\ result' = [sprints |-> NewSprintDetails]
             ELSE /\ step' = "search"
                  /\ UNCHANGED result
    /\ UNCHANGED <<handler, args, fault, status>>
    /\ UNCHANGED startup_vars

\* get_sprint_details: one turn of the loop over sprints, and the return
\* after the last one.
get_sprint_details_search ==
    /\ handler = "get_sprint_details"
    /\ step = "search"
    /\ \E issues \in IssueLists(IF loc.i = 1 THEN MaxIssues ELSE MaxLaterIssues) :
          LET details == Append(loc.sprint_details,
                                SprintInfo(loc.sprints[loc.i], issues))
          IN  /\ calls' = Append(calls, Returned(issues))
              /\ IF loc.i = Len(loc.sprints)
                 THEN /\ loc' = [loc EXCEPT !.sprint_details = details]
                      /\ step' = "done"
                      /\ result' = [sprints |-> details]
                 ELSE /\ loc' = [loc EXCEPT !.sprint_details = details, !.i = @ + 1]
                      /\ UNCHANGED <<step, result>>
    /\ UNCHANGED <<handler, args, fault, status>>
    /\ UNCHANGED startup_vars

\* get_issue_details: issue = self.jira.issue(issue_key), and the comments.
get_issue_details_issue ==
    /\ handler = "get_issue_details"
    /\ step = "issue"
    /\ \E issue \in {i \in Issues : i.key = args.issue_key} :
          /\ calls' = Append(calls, Returned(issue))
          /\ loc' = [issue |-> issue, comments |-> IssueComments(issue)]
    /\ step' = "changelog"
    /\ UNCHANGED <<handler, args, fault, result, status>>
    /\ UNCHANGED startup_vars

\* get_issue_details: the second fetch, with the changelog, and the record.
get_issue_details_changelog ==
    /\ handler = "get_issue_details"
    /\ step = "changelog"
    /\ \E changelog \in Changelogs :
          LET history == IssueHistory(changelog)
          IN  /\ calls' = Append(calls, Returned(changelog))
              /\ loc' = loc @@ [history |-> history]
              /\ IF PriorityNameRaises(loc.issue)
                 THEN /\ fault' = AttributeError
                      /\ result' = ExceptReturn(loc, NoneHasNoName)
                 ELSE /\ result' = IssueDetails(loc.issue, loc.comments, history)
                      /\ UNCHANGED fault
    /\ step' = "done"
    /\ UNCHANGED <<handler, args, status>>
    /\ UNCHANGED startup_vars

\* create_issue: the field map, self.jira.create_issue(fields=issue_dict).
create_issue ==
    /\ handler = "create_issue"
    /\ step = "create_issue"
    /\ \E new_issue \in {[key |-> "PROJ-9",
                          self |-> "https://jira.example/rest/api/2/issue/10009"]} :
          /\ calls' = Append(calls, Returned(new_issue))
          /\ loc' = [issue_dict |-> IssueDict(args), new_issue |-> new_issue]
          /\ result' = [key |-> new_issue.key,
                        self |-> new_issue.self,
                        summary |-> args.summary,
                        message |-> "Successfully created issue " \o new_issue.key]
    /\ step' = "done"
    /\ UNCHANGED <<handler, args, fault, status>>
    /\ UNCHANGED startup_vars

\* update_issue_status: transitions = self.jira.transitions(issue_key), the
\* search for the transition id, and the return when there is none.
update_issue_status_transitions ==
    /\ handler = "update_issue_status"
    /\ step = "transitions"
    /\ \E transitions \in TransitionLists :
          LET transition_id == FindTransition(transitions, args.transition_to)
          IN  /\ calls' = Append(calls, Returned(transitions))
              /\ loc' = [transitions |-> transitions, transition_id |-> transition_id]
              /\ IF ~Truthy(transition_id)
                 THEN /\ result' = CannotTransition(transitions, args.transition_to)
                      /\ step' = "done"
                 ELSE /\ UNCHANGED result
                      /\ step' = "transition_issue"
    /\ UNCHANGED <<handler, args, fault, status>>
    /\ UNCHANGED startup_vars

\* update_issue_status: self.jira.transition_issue(issue_key, transition_id)
update_issue_status_transition_issue ==
    /\ handler = "update_issue_status"
    /\ step = "transition_issue"
    /\ status' = StatusAfter(loc.transitions, loc.transition_id.str)
    /\ result' = [success |-> TRUE,
                  key |-> args.issue_key,
                  new_status |-> args.transition_to,
                  message |-> SuccessfullyUpdated \o CodePointsOf[args.issue_key]
                              \o StatusTo \o args.transition_to]
    /\ step' = "done"
    /\ calls' = Append(calls, Returned(None))
    /\ UNCHANGED <<handler, args, loc, fault>>
    /\ UNCHANGED startup_vars

\* assign_issue: self.jira.assign_issue(issue_key, assignee)
assign_issue ==
    /\ handler = "assign_issue"
    /\ step = "assign_issue"
    /\ result' = [success |-> TRUE,
                  key |-> args.issue_key,
                  assignee |-> args.assignee,
                  message |-> "Successfully assigned " \o args.issue_key
                              \o " to " \o args.assignee]
    /\ step' = "done"
    /\ calls' = Append(calls, Returned(None))
    /\ UNCHANGED <<handler, args, loc, fault, status>>
    /\ UNCHANGED startup_vars

\* add_issue_to_sprint: self.jira.add_issues_to_sprint(sprint_id, [issue_key])
add_issue_to_sprint ==
    /\ handler = "add_issue_to_sprint"
    /\ step = "add_issues_to_sprint"
    /\ result' = [success |-> TRUE,
                  key |-> args.issue_key,
                  sprint_id |-> args.sprint_id,
                  message |-> "Successfully added " \o args.issue_key
                              \o " to sprint " \o ToString(args.sprint_id)]
    /\ step' = "done"
    /\ calls' = Append(calls, Returned(None))
    /\ UNCHANGED <<handler, args, loc, fault, status>>
    /\ UNCHANGED startup_vars

\* get_project_backlog: the search (at most max_results issues come back) and
\* the record.
get_project_backlog ==
    /\ handler = "get_project_backlog"
    /\ step = "search"
    /\ \E backlog_issues \in IssueLists(args.max_results) :
          /\ calls' = Append(calls, Returned(backlog_issues))
          /\ loc' = [backlog_issues |-> backlog_issues]
          /\ IF \E k \in DOMAIN backlog_issues : PriorityNameRaises(backlog_issues[k])
             THEN /\ fault' = AttributeError
                  /\ result' = ExceptReturn(loc, NoneHasNoName)
             ELSE LET backlog_items ==
                          [k \in DOMAIN backlog_issues |-> BacklogItem(backlog_issues[k])]
                  IN  /\ result' = [project |-> args.project_key,
                                    backlog_count |-> Len(backlog_items),
                                    backlog_items |-> backlog_items]
                      /\ UNCHANGED fault
    /\ step' = "done"
    /\ UNCHANGED <<handler, args, status>>
    /\ UNCHANGED startup_vars

\* create_sprint: self.jira.create_sprint(...) and the record.
create_sprint ==
    /\ handler = "create_sprint"
    /\ step = "create_sprint"
    /\ \E new_sprint \in CreatedSprints(args.name,
                                        StartOfDay(args.start_date),
                                        EndOfDay(args.end_date),
                                        args.goal) :
          /\ calls' = Append(calls, Returned(new_sprint))
          /\ loc' = [new_sprint |-> new_sprint]
          /\ result' = CreatedSprint(new_sprint, args)
    /\ step' = "done"
    /\ UNCHANGED <<handler, args, fault, status>>
    /\ UNCHANGED startup_vars

\* generate_sprint_report: sprint = self.jira.sprint(sprint_id)
generate_sprint_report_sprint ==
    /\ handler = "generate_sprint_report"
    /\ step = "sprint"
    /\ \E sprint \in {Sprint7("closed"), Sprint8("closed")} :
          /\ calls' = Append(calls, Returned(sprint))
          /\ loc' = [sprint |-> sprint]
    /\ step' = "sprint_report"
    /\ UNCHANGED <<handler, args, fault, result, status>>
    /\ UNCHANGED startup_vars

\* generate_sprint_report: sprint_report = self.jira.sprint_report(...); the
\* handler never reads what came back.
generate_sprint_report_sprint_report ==
    /\ handler = "generate_sprint_report"
    /\ step = "sprint_report"
    /\ step' = "search"
    /\ calls' = Append(calls, Returned(None))
    /\ UNCHANGED <<handler, args, loc, fault, result, status>>
    /\ UNCHANGED startup_vars

\* generate_sprint_report: the search for the sprint's issues, and the report.
generate_sprint_report_search ==
    /\ handler = "generate_sprint_report"
    /\ step = "search"
    /\ \E sprint_issues \in IssueLists(ReportMaxResults) :
          /\ calls' = Append(calls, Returned(sprint_issues))
          /\ loc' = loc @@ [sprint_issues |-> sprint_issues]
          /\ result' = SprintReport(loc.sprint, sprint_issues)
    /\ step' = "done"
    /\ UNCHANGED <<handler, args, fault, status>>
    /\ UNCHANGED startup_vars

Next ==
    \/ Construct
    \/ InitJira
    \/ RegisterTools
    \/ Run
    \/ RunReturned
    \/ RunFailed
    \/ Invoke
    \/ Respond
    \/ BackendFault
    \/ get_sprint_details_sprints
    \/ get_sprint_details_search
    \/ get_issue_details_issue
    \/ get_issue_details_changelog
    \/ create_issue
    \/ update_issue_status_transitions
    \/ update_issue_status_transition_issue
    \/ assign_issue
    \/ add_issue_to_sprint
    \/ get_project_backlog
    \/ create_sprint
    \/ generate_sprint_report_sprint
    \/ generate_sprint_report_sprint_report
    \/ generate_sprint_report_search

Spec == Init /\ [][Next]_vars

-----------------------------------------------------------------------------
(* Properties *)

\* A backend call of the running handler raised.
BackendFaulted == fault.raised /\ fault.at > 0

\* C1: when a backend call of any of the nine handlers raises a fault, at
\* whichever call of the handler it is, the handler has returned, and the
\* record it returned has "error" as its only key: nothing gathered before
\* the fault is returned beside it.
C1_FaultYieldsOnlyErrorRecord ==
    BackendFaulted =>
        /\ handler \in ToolNames
        /\ step = "done"
        /\ fault.at = Len(calls)
        /\ "raised" \in DOMAIN calls[Len(calls)]
        /\ DOMAIN result = {"error"}

\* The issue query of the second sprint raised after the first sprint's
\* record was built.
C1_Witness ==
    /\ handler = "get_sprint_details"
    /\ BackendFaulted
    /\ fault.at = 3
    /\ Len(loc.sprint_details) = 1
    /\ DOMAIN result = {"error"}

\* C2: when a backend call raises a fault, the returned record is
\* {error: s} with s a non-empty string, whatever the fault's message.
C2_ErrorStringNonEmpty ==
    BackendFaulted => ("error" \in DOMAIN result /\ result.error # "")

-----------------------------------------------------------------------------
(* Reference computations, written from the backend's data alone *)

\* The handler has returned a record without any exception being raised.
ReturnedNormally(h) == handler = h /\ step = "done" /\ ~fault.raised

\* The story points of a backend issue, a missing or null value counting 0.
RefStoryPoints(issue) ==
    IF "customfield_10002" \in DOMAIN issue.fields
    THEN IF "num" \in DOMAIN issue.fields.customfield_10002
         THEN issue.fields.customfield_10002.num
         ELSE 0
    ELSE 0

\* Whether a backend issue carries no story-point value.
HasNoStoryPoints(issue) ==
    \/ "customfield_10002" \notin DOMAIN issue.fields
    \/ issue.fields.customfield_10002 = None

RECURSIVE RefSum(_, _)
\* The story points of the issues at the positions in S.
RefSum(issues, S) ==
    IF S = {} THEN 0
    ELSE LET k == CHOOSE k \in S : TRUE
         IN  RefStoryPoints(issues[k]) + RefSum(issues, S \ {k})

\* The positions of the issues whose status name is Done, Closed or Completed.
RefCompleted(issues) ==
    {k \in DOMAIN issues :
        \/ issues[k].fields.status.name = "Done"
        \/ issues[k].fields.status.name = "Closed"
        \/ issues[k].fields.status.name = "Completed"}

\* q is the rational n / d * 100.
IsPercentOf(q, n, d) == q.den > 0 /\ q.num * d = n * 100 * q.den

IsZero(q) == q.den > 0 /\ q.num = 0

\* The sprint metrics agree with the reference, the percentage being the
\* quotient exactly when WholeCounts(total) holds.
SprintMetricsAgree(m, issues, WholeCounts(_)) ==
    LET total == RefSum(issues, DOMAIN issues)
        completed == RefSum(issues, RefCompleted(issues))
    IN  /\ m.total_issues = Len(issues)
        /\ m.total_story_points = total
        /\ m.completed_story_points = completed
        /\ IF WholeCounts(total)
           THEN IsPercentOf(m.completion_percentage, completed, total)
           ELSE IsZero(m.completion_percentage)

\* Every sprint of a returned sprint listing agrees with the reference; the
\* issues of the k-th sprint are what the (k+1)-th backend call returned.
SprintListingAgrees(WholeCounts(_)) ==
    ReturnedNormally("get_sprint_details") =>
        \A k \in DOMAIN result.sprints :
            SprintMetricsAgree(result.sprints[k].metrics, calls[k + 1].returned, WholeCounts)

\* C3 (as amended): every sprint returned by get_sprint_details has
\* total_issues the number of issues the backend returned for it,
\* total_story_points their story points with a missing or null value
\* counted as 0, completed_story_points that sum over the issues whose
\* status name is exactly Done, Closed or Completed, and
\* completion_percentage 0 whenever total_story_points is 0 or negative and
\* completed / total * 100 otherwise.
C3_SprintMetrics == SprintListingAgrees(LAMBDA total : total > 0)

\* C3 as stated: completion_percentage is 0 when total_story_points is 0
\* and completed / total * 100 in every other case.
C3_AsStated == SprintListingAgrees(LAMBDA total : total # 0)

\* Board 42, active sprints: sprint 7 with a Done issue of 5 points and an
\* In Progress issue of 3 points has metrics 2, 8, 5 and 62.5.
C3_Witness ==
    /\ ReturnedNormally("get_sprint_details")
    /\ args = [board_id |-> 42, sprint_state |-> "active"]
    /\ \E k \in DOMAIN result.sprints :
          /\ result.sprints[k].id = 7
          /\ calls[k + 1].returned = <<Issue1, Issue2>>
          /\ status = "Done"
          /\ result.sprints[k].metrics =
                [total_issues |-> 2, total_story_points |-> 8,
                 completed_story_points |-> 5,
                 completion_percentage |-> [num |-> 125, den |-> 2]]

\* Two characters are one letter in its capital and small forms, or two of
\* the three forms of the sigma (capital, small, final small).
SameLetter(x, y) ==
    \/ x = y
    \/ \E n \in DOMAIN UpperLetters : {x, y} = {UpperLetters[n], LowerLetters[n]}
    \/ {x, y} \subseteq {CapitalSigma, LowerCaseOf[CapitalSigma], FinalSmallSigma}

\* Two names are equal up to the case of their letters.
SameIgnoringCase(a, b) ==
    /\ Len(a) = Len(b)
    /\ \A i \in DOMAIN a : SameLetter(a[i], b[i])

\* The positions of the fetched transitions that match the target.
Matching(transitions, target) ==
    {k \in DOMAIN transitions : SameIgnoringCase(transitions[k].name, target)}

\* The first matching transition in the fetched order.
FirstMatching(transitions, target) ==
    transitions[CHOOSE k \in Matching(transitions, target) :
                    \A j \in Matching(transitions, target) : k <= j]

\* update_issue_status runs and its transitions fetch has returned.
TransitionsFetched ==
    /\ handler = "update_issue_status"
    /\ Len(calls) >= 1
    /\ "returned" \in DOMAIN calls[1]

TransitionCalls == {k \in DOMAIN calls : calls[k].request.op = "transition_issue"}

SuccessRecord ==
    [success |-> TRUE,
     key |-> args.issue_key,
     new_status |-> args.transition_to,
     message |-> SuccessfullyUpdated \o CodePointsOf[args.issue_key]
                 \o StatusTo \o args.transition_to]

\* C4: update_issue_status matches the requested status against the
\* fetched transition names without regard to letter case; when at least
\* one matches, it issues exactly one transition_issue call, after the
\* fetch has returned, carrying the id of the first matching transition in
\* the fetched order, and returns {success: true, key, new_status,
\* message}.
C4_AsStated ==
    (TransitionsFetched /\ Matching(calls[1].returned, args.transition_to) # {}) =>
        LET first == FirstMatching(calls[1].returned, args.transition_to)
        IN  /\ calls[1].request.op = "transitions"
            /\ step \in {"transition_issue", "done"}
            /\ step = "transition_issue" =>
                  /\ Len(calls) = 1
                  /\ result = NoResult
            /\ step = "done" =>
                  /\ Len(calls) = 2
                  /\ TransitionCalls = {2}
                  /\ calls[2].request = [op |-> "transition_issue",
                                         issue |-> args.issue_key,
                                         transition |-> first.id]
                  /\ result = SuccessRecord

RECURSIVE NamesUpTo(_, _)
\* The names of the first k transitions, separated by ", ".
NamesUpTo(transitions, k) ==
    IF k = 0 THEN <<>>
    ELSE IF k = 1 THEN transitions[1].name
    ELSE NamesUpTo(transitions, k - 1) \o CommaSpace \o transitions[k].name

NegativeRecord(transitions, target) ==
    [success |-> FALSE,
     message |-> CannotTransitionTo \o target \o AvailableTransitions
                 \o NamesUpTo(transitions, Len(transitions))]

\* The step in which the transitions fetch of update_issue_status returns.
FetchReturns ==
    /\ handler = "update_issue_status"
    /\ step = "transitions"
    /\ Len(calls') = 1
    /\ "returned" \in DOMAIN calls'[1]

\* C5: when no fetched transition matches the requested status,
\* update_issue_status returns {success: false, message: "Cannot
\* transition to '<target>'. Available transitions: <names joined by ', '
\* in fetched order>"}, without an "error" key and without issuing a
\* transition_issue call, and the issue's status in the backend stays as it
\* was; and a record with success false is returned only when no fetched
\* transition matches.
C5_AsStated ==
    /\ [][FetchReturns =>
            IF Matching(calls'[1].returned, args.transition_to) = {}
            THEN /\ step' = "done"
                 /\ result' = NegativeRecord(calls'[1].returned, args.transition_to)
                 /\ status' = status
            ELSE /\ step' = "transition_issue"
                 /\ result' = NoResult]_vars
    /\ []((handler = "update_issue_status" /\ "success" \in DOMAIN result
              /\ ~result.success) =>
            /\ TransitionsFetched
            /\ Len(calls) = 1
            /\ Matching(calls[1].returned, args.transition_to) = {})

\* C6: the field map create_issue sends always holds project, issuetype,
\* summary and description, and holds each optional field exactly when the
\* caller gave a non-null value for it, with that value.
C6_OptionalFieldsSentWhenProvided ==
    (handler = "create_issue" /\ Len(calls) = 1) =>
        LET fields == calls[1].request.fields
        IN  /\ {"project", "issuetype", "summary", "description"} \subseteq DOMAIN fields
            /\ DOMAIN fields \subseteq
                  {"project", "issuetype", "summary", "description",
                   "assignee", "priority", "labels", "customfield_10002"}
            /\ "assignee" \in DOMAIN fields <=> args.assignee # None
            /\ args.assignee # None => fields.assignee = [name |-> args.assignee.str]
            /\ "priority" \in DOMAIN fields <=> args.priority # None
            /\ args.priority # None => fields.priority = [name |-> args.priority.str]
            /\ "labels" \in DOMAIN fields <=> args.labels # None
            /\ args.labels # None => fields.labels = args.labels.list
            /\ "customfield_10002" \in DOMAIN fields <=> args.story_points # None
            /\ args.story_points # None => fields.customfield_10002 = args.story_points.num

\* The records of a list agree with Holds on every issue the backend returned.
ListRecords(records, issues, Holds(_, _)) ==
    /\ DOMAIN records = DOMAIN issues
    /\ \A n \in DOMAIN issues : Holds(records[n], issues[n])

\* Holds is true of every per-issue record returned in a list context.
InListContexts(Holds(_, _)) ==
    /\ ReturnedNormally("get_sprint_details") =>
          \A k \in DOMAIN result.sprints :
              ListRecords(result.sprints[k].issues, calls[k + 1].returned, Holds)
    /\ ReturnedNormally("get_project_backlog") =>
          ListRecords(result.backlog_items, calls[1].returned, Holds)

\* C7: in the per-issue records of get_sprint_details and
\* get_project_backlog, story_points is 0 whenever the backend issue has no
\* story-point value, be the field absent or null.
C7_StoryPointsDefaultZero ==
    InListContexts(LAMBDA record, issue :
        HasNoStoryPoints(issue) => record.story_points = Num(0))

\* The record's assignee is present, and "Unassigned" for an unassigned issue.
UnassignedShown(record, issue) ==
    /\ "assignee" \in DOMAIN record
    /\ issue.fields.assignee = None => record.assignee = "Unassigned"

\* The issues the handler has fetched so far.
FetchedIssues ==
    CASE handler = "get_issue_details" ->
            {calls[k].returned : k \in {k \in DOMAIN calls : k = 1 /\ "returned" \in DOMAIN calls[k]}}
      [] handler = "get_project_backlog" ->
            UNION {{calls[k].returned[n] : n \in DOMAIN calls[k].returned} :
                      k \in {k \in DOMAIN calls : "returned" \in DOMAIN calls[k]}}
      [] OTHER -> {}

\* C8: an issue whose backend assignee is null has assignee "Unassigned" in
\* the lists of get_sprint_details and get_project_backlog and in the
\* record of get_issue_details; the key is always there; and these
\* handlers return an error only when a backend call raised or an issue
\* lacks a priority, never because an assignee is missing.
C8_MissingAssigneeIsUnassigned ==
    /\ InListContexts(UnassignedShown)
    /\ ReturnedNormally("get_issue_details") =>
          UnassignedShown(result, calls[1].returned)
    /\ (handler \in {"get_sprint_details", "get_issue_details", "get_project_backlog"}
        /\ step = "done" /\ "error" \in DOMAIN result) =>
          \/ BackendFaulted
          \/ \E issue \in FetchedIssues : issue.fields.priority = None

\* get_issue_details returned the record of an unassigned issue.
C8_Witness ==
    /\ ReturnedNormally("get_issue_details")
    /\ calls[1].returned.fields.assignee = None
    /\ result.assignee = "Unassigned"

\* The report's metrics agree with the reference, story_point_completion
\* being the quotient exactly when WholeCounts(total_story_points) holds.
ReportAgrees(WholeCounts(_)) ==
    ReturnedNormally("generate_sprint_report") =>
        LET issues == calls[3].returned
            m == result.metrics
            done == Cardinality(RefCompleted(issues))
            total == RefSum(issues, DOMAIN issues)
            completed == RefSum(issues, RefCompleted(issues))
        IN  /\ m.total_issues = Len(issues)
            /\ m.completed_issues = done
            /\ IF Len(issues) = 0
               THEN IsZero(m.completion_percentage)
               ELSE IsPercentOf(m.completion_percentage, done, Len(issues))
            /\ m.total_story_points = total
            /\ m.completed_story_points = completed
            /\ IF WholeCounts(total)
               THEN IsPercentOf(m.story_point_completion, completed, total)
               ELSE IsZero(m.story_point_completion)

\* C9 (as amended): in the record generate_sprint_report returns,
\* completed_issues counts the fetched issues whose status name is Done,
\* Closed or Completed; completion_percentage is completed_issues /
\* total_issues * 100, and 0 when total_issues is 0; story_point_completion
\* is completed_story_points / total_story_points * 100 when
\* total_story_points is positive, and 0 when it is 0 or negative; both are
\* always numbers.
C9_ReportPercentages == ReportAgrees(LAMBDA total : total > 0)

\* C9 as stated: story_point_completion is 0 when total_story_points is 0
\* and completed_story_points / total_story_points * 100 in every other case.
C9_AsStated == ReportAgrees(LAMBDA total : total # 0)

\* One Closed issue without an estimate: every issue is completed, and the
\* story-point denominator is 0.
C9_Witness ==
    /\ ReturnedNormally("generate_sprint_report")
    /\ calls[3].returned = <<Issue3>>
    /\ result.metrics.completed_issues = 1
    /\ result.metrics.completion_percentage = [num |-> 100, den |-> 1]
    /\ result.metrics.total_story_points = 0
    /\ result.metrics.story_point_completion = [num |-> 0, den |-> 1]

\* A setting is absent from the environment; once load_dotenv has run, it
\* is absent from the .env file too.
SettingAbsent ==
    \/ env.JIRA_URL = None
    \/ env.JIRA_USERNAME = None
    \/ env.JIRA_API_TOKEN = None

\* C10: with any of the three settings absent when _init_jira reads them
\* (absent from the process environment and not defined by a .env file
\* either), no backend session is created, no tool handler is registered
\* and the run loop is not entered,
\* and once _init_jira has run the process has exited with a nonzero
\* status; handlers are registered, run, and the run loop is entered only
\* with all three settings present and the session created.
C10_NoPartialStart ==
    /\ SettingAbsent =>
          /\ session = "none"
          /\ tools = {}
          /\ ~run_entered
          /\ handler = "none"
          /\ pc \in {"start", "init_jira", "exited"}
          /\ pc = "exited" => exit_code # 0 /\ exit_code # -1
    /\ (tools # {} \/ run_entered \/ handler # "none") =>
          /\ ~SettingAbsent
          /\ session = "connected"
    /\ run_entered => tools = ToolNames

\* Only the API token is absent after load_dotenv, and the process has
\* exited with status 1.
C10_Witness ==
    /\ env.JIRA_URL # None
    /\ env.JIRA_USERNAME # None
    /\ env.JIRA_API_TOKEN = None
    /\ pc = "exited"
    /\ exit_code = 1
    /\ tools = {}
    /\ session = "none"

-----------------------------------------------------------------------------
(* Sprint dates *)

\* The create-sprint call carries the start date s as s T00:00:00.000Z and
\* the end date e as e T23:59:59.000Z, and it is the only backend call.
SprintDatesSent ==
    LET sent == calls[1].request
    IN  /\ Len(calls) = 1
        /\ sent.op = "create_sprint"
        /\ sent.startDate = args.start_date \o "T00:00:00.000Z"
        /\ sent.endDate = args.end_date \o "T23:59:59.000Z"
        /\ Len(sent.startDate) = Len(args.start_date) + 14
        /\ Len(sent.endDate) = Len(args.end_date) + 14
        /\ (args.start_date = "2024-01-01" => sent.startDate = "2024-01-01T00:00:00.000Z")
        /\ (args.end_date = "2024-01-14" => sent.endDate = "2024-01-14T23:59:59.000Z")

\* An attribute the created sprint does not carry is filled in: state with
\* "future", the dates and the goal with the caller's own values.
SprintDefaults ==
    LET new_sprint == calls[1].returned
        absent(name) == name \notin DOMAIN new_sprint
    IN  /\ absent("state") => result.state = "future"
        /\ absent("startDate") => result.start_date = Str(args.start_date)
        /\ absent("endDate") => result.end_date = Str(args.end_date)
        /\ absent("goal") => result.goal = Str(args.goal)

\* C12: for every start date s and end date e given to create_sprint, the
\* single create-sprint call sent to the backend carries startDate s followed
\* by T00:00:00.000Z and endDate e followed by T23:59:59.000Z, and in the
\* returned record state defaults to "future" and start_date, end_date and
\* goal default to the caller-supplied values when the created sprint does
\* not carry them.
C12_SprintDatesAndDefaults ==
    handler = "create_sprint" /\ step = "done" =>
        /\ SprintDatesSent
        /\ (~fault.raised => SprintDefaults)

\* Start 2024-01-01 and end 2024-01-14 are sent as 2024-01-01T00:00:00.000Z
\* and 2024-01-14T23:59:59.000Z; the backend's sprint carries only id and
\* name, so the record has state "future" and the caller's dates and goal.
C12_Witness ==
    /\ ReturnedNormally("create_sprint")
    /\ args.start_date = "2024-01-01"
    /\ args.end_date = "2024-01-14"
    /\ args.goal = "Ship search"
    /\ calls[1].request.startDate = "2024-01-01T00:00:00.000Z"
    /\ calls[1].request.endDate = "2024-01-14T23:59:59.000Z"
    /\ calls[1].returned = [id |-> 9, name |-> "Sprint 9"]
    /\ result.state = "future"
    /\ result.start_date = Str("2024-01-01")
    /\ result.end_date = Str("2024-01-14")
    /\ result.goal = Str("Ship search")


-----------------------------------------------------------------------------
(* Issue-type breakdown of the sprint report *)

RECURSIVE SumOfEntries(_, _, _)
\* The sum of one field (total or completed) over the entries named in S.
SumOfEntries(issue_types, S, field) ==
    IF S = {} THEN 0
    ELSE LET t == CHOOSE t \in S : TRUE
         IN  issue_types[t][field] + SumOfEntries(issue_types, S \ {t}, field)

\* The issue-type names that occur among the issues.
TypeNames(issues) == {issues[k].fields.issuetype.name : k \in DOMAIN issues}

\* A percentage between 0 and 100.
WithinHundred(q) == q.den > 0 /\ 0 <= q.num /\ q.num <= 100 * q.den

\* The breakdown of the metrics m is consistent with the issues fetched.
BreakdownConsistent(m, issues) ==
    LET issue_types == m.issue_types
    IN  /\ DOMAIN issue_types = TypeNames(issues)
        /\ \A t \in DOMAIN issue_types :
              /\ 0 <= issue_types[t].completed
              /\ issue_types[t].completed <= issue_types[t].total
              /\ issue_types[t].total >= 1
              /\ issue_types[t].total =
                    Cardinality({k \in DOMAIN issues : issues[k].fields.issuetype.name = t})
        /\ SumOfEntries(issue_types, DOMAIN issue_types, "total") = m.total_issues
        /\ SumOfEntries(issue_types, DOMAIN issue_types, "completed") = m.completed_issues
        /\ m.completed_issues <= m.total_issues
        /\ m.total_issues = Len(issues)

\* With no negative story-point value, the story-point totals are ordered
\* and both percentages lie between 0 and 100.
StoryPointsOrdered(m, issues) ==
    (\A k \in DOMAIN issues : RefStoryPoints(issues[k]) >= 0) =>
        /\ 0 <= m.completed_story_points
        /\ m.completed_story_points <= m.total_story_points
        /\ WithinHundred(m.completion_percentage)
        /\ WithinHundred(m.story_point_completion)

\* C13: in every successful generate_sprint_report result the issue-type
\* breakdown has an entry for exactly the type names that occur among the
\* fetched issues, every entry has 0 <= completed <= total and total >= 1,
\* the totals sum to total_issues and the completed values to
\* completed_issues, completed_issues <= total_issues, and, when every
\* story-point value is non-negative, 0 <= completed_story_points <=
\* total_story_points and both percentages lie between 0 and 100.
C13_BreakdownMatchesTotals ==
    ReturnedNormally("generate_sprint_report") =>
        /\ BreakdownConsistent(result.metrics, calls[3].returned)
        /\ StoryPointsOrdered(result.metrics, calls[3].returned)

\* Two stories, PROJ-1 In Progress with 5 points and PROJ-3 Closed without
\* an estimate: one Story entry with total 2 and completed 1.
C13_Witness ==
    /\ ReturnedNormally("generate_sprint_report")
    /\ status = "In Progress"
    /\ calls[3].returned = <<Issue1, Issue3>>
    /\ DOMAIN result.metrics.issue_types = {"Story"}
    /\ result.metrics.issue_types["Story"] = [total |-> 2, completed |-> 1]
    /\ result.metrics.total_issues = 2
    /\ result.metrics.completed_issues = 1
    /\ result.metrics.total_story_points = 5
    /\ result.metrics.completed_story_points = 0

====
